---- MODULE Spec2Model ----
(***************************************************************************)
(* Mirage: a 16-register, frame-stacked bytecode interpreter.              *)
(* The model follows src/src/runtime.rs (MirageRuntime), registers.rs,     *)
(* stack.rs, value.rs, the run/build branches of main.rs and the           *)
(* assembler of assembly/tokens.rs and assembly/parser.rs.                 *)
(*                                                                         *)
(* Strings and payloads are sequences of bytes (0..255); an Option is the  *)
(* empty sequence (None) or a one-element sequence (Some).                 *)
(***************************************************************************)
EXTENDS Integers, Sequences, FiniteSets, TLC

VARIABLES
    instructions,         \* MirageRuntime.instructions
    labels,               \* MirageRuntime.labels
    function_addr_table,  \* MirageRuntime.function_addr_table
    registers,            \* MirageRuntime.registers
    frames,               \* MirageRuntime.stack.frames
    program_counter,      \* MirageRuntime.program_counter
    argument_stack,       \* MirageRuntime.argument_stack
    stdout_last,          \* the chunk last written to the stdout lock
    stderr_last,          \* the chunk last written to the stderr lock
    phase,                \* where main / run stand
    result,               \* what run returned
    dispatched,           \* index of the instruction last dispatched
    host,                 \* the command line, the files and the build profile
    exit_code,            \* main's ExitCode, once it has returned
    main_tokens,          \* what tokenize returned to main's build branch
    main_parsed           \* what Parser::parse returned to it

vars == <<instructions, labels, function_addr_table, registers, frames,
          program_counter, argument_stack, stdout_last, stderr_last, phase,
          result, dispatched, host, exit_code, main_tokens, main_parsed>>

----------------------------------------------------------------------------
(* Bounds of the model *)

\* Int literals of the generated programs range over -MaxLit..MaxLit
\* (plus the two extremes of i32).
MaxLit == 2

(* Program constants *)

\* CallStack::new: max_size
max_size == 4000

\* Registers: [Option<MiValue>; 16]
NumRegisters == 16

\* The register that run returns
ResultRegister == 15

MaxI32 == 2147483647
MinI32 == -2147483647 - 1

----------------------------------------------------------------------------
(* Option *)

None == <<>>
Some(x) == <<x>>

----------------------------------------------------------------------------
(* MiType and MiValue (value.rs) *)

MiType == {"Int", "Float", "String", "Bool", "Class", "Function", "None"}

\* An is_numeric that lets Bool through as well; C4 tells it from the
\* program's
is_numeric_or_bool(variant) == variant \in {"Int", "Float", "Bool"}

\* MiType::is_numeric
is_numeric(variant) == variant = "Int" \/ variant = "Float"

MiValue(bytes, variant) == [bytes |-> bytes, variant |-> variant]

\* i32::to_le_bytes: two's complement, least significant byte first
I32ToLeBytes(n) ==
    LET w == IF n >= 0 THEN n ELSE (n + MaxI32) + 1
        top == (w \div 16777216) + (IF n >= 0 THEN 0 ELSE 128)
    IN  <<w % 256, (w \div 256) % 256, (w \div 65536) % 256, top>>

\* i32::from_le_bytes of a 4-byte payload
I32FromLeBytes(b) ==
    LET neg == b[4] >= 128
        w == b[1] + 256 * b[2] + 65536 * b[3]
             + 16777216 * (IF neg THEN b[4] - 128 ELSE b[4])
    IN  IF neg THEN (w - MaxI32) - 1 ELSE w

\* `bytes.try_into().unwrap()` into [u8; 4] panics unless there are 4 bytes
IsI32Payload(b) == Len(b) = 4

\* A float of the model is a count h of halves (the f64 h/2) with |h| < 32.
\* F64ToLeBytes is f64::to_le_bytes on these: sign, 11 exponent bits and the
\* 4 leading mantissa bits fill the two most significant bytes, every other
\* byte is zero.
FloatDomain == -31..31

Log2Floor(n) == CHOOSE e \in 0..5 : 2^e <= n /\ n < 2^(e + 1)

F64Top16(h) ==
    IF h = 0 THEN 0
    ELSE LET a == IF h < 0 THEN -h ELSE h
             e == Log2Floor(a)
             frac4 == ((a - 2^e) * 16) \div (2^e)
         IN  (IF h < 0 THEN 32768 ELSE 0) + (e - 1 + 1023) * 16 + frac4

F64ToLeBytes(h) ==
    LET t == F64Top16(h) IN <<0, 0, 0, 0, 0, 0, t % 256, t \div 256>>

\* `bytes.try_into().unwrap()` into [u8; 8] panics unless there are 8 bytes
IsF64Payload(b) == Len(b) = 8

\* f64::from_le_bytes, on the payloads F64ToLeBytes produces
F64FromLeBytes(b) == CHOOSE h \in FloatDomain : F64ToLeBytes(h) = b

\* bincode's serialize of a String: u64 length, little-endian, then the bytes
U64ToLeBytes(n) == <<n % 256, (n \div 256) % 256, 0, 0, 0, 0, 0, 0>>

SerializeString(s) == U64ToLeBytes(Len(s)) \o s

IntV(n) == MiValue(I32ToLeBytes(n), "Int")           \* impl IntoValue for i32
FloatV(h) == MiValue(F64ToLeBytes(h), "Float")       \* impl IntoValue for f64
StringV(s) == MiValue(SerializeString(s), "String")  \* impl IntoValue for String
\* A Bool of two bytes; C13 tells it from the program's
BoolVWide(b) == MiValue(<<IF b THEN 1 ELSE 0, 0>>, "Bool")

BoolV(b) == MiValue(IF b THEN <<1>> ELSE <<0>>, "Bool")  \* impl IntoValue for bool
NoneV == MiValue(<<>>, "None")                       \* Parser::parse_value, "None"

----------------------------------------------------------------------------
(* Native arithmetic of the host language on i32 and f64 *)

\* What a native operation gives: a value, or a panic of the interpreter
Done(v) == [ok |-> TRUE, v |-> v]
Panic == [ok |-> FALSE, v |-> 0]

\* Wrapping operations on the 4-byte little-endian bit patterns
AddBytes(a, b, carry) ==
    LET s1 == a[1] + b[1] + carry
        s2 == a[2] + b[2] + s1 \div 256
        s3 == a[3] + b[3] + s2 \div 256
        s4 == a[4] + b[4] + s3 \div 256
    IN  <<s1 % 256, s2 % 256, s3 % 256, s4 % 256>>

NotBytes(b) == <<255 - b[1], 255 - b[2], 255 - b[3], 255 - b[4]>>

MulBytes(a, b) ==
    LET r1 == a[1] * b[1]
        r2 == a[1] * b[2] + a[2] * b[1] + r1 \div 256
        r3 == a[1] * b[3] + a[2] * b[2] + a[3] * b[1] + r2 \div 256
        r4 == a[1] * b[4] + a[2] * b[3] + a[3] * b[2] + a[4] * b[1] + r3 \div 256
    IN  <<r1 % 256, r2 % 256, r3 % 256, r4 % 256>>

wrapping_add(a, b) ==
    I32FromLeBytes(AddBytes(I32ToLeBytes(a), I32ToLeBytes(b), 0))
wrapping_sub(a, b) ==
    I32FromLeBytes(AddBytes(I32ToLeBytes(a), NotBytes(I32ToLeBytes(b)), 1))
wrapping_mul(a, b) ==
    I32FromLeBytes(MulBytes(I32ToLeBytes(a), I32ToLeBytes(b)))

AddOverflows(a, b) ==
    \/ b > 0 /\ a > MaxI32 - b
    \/ b < 0 /\ a < MinI32 - b
SubOverflows(a, b) ==
    \/ b < 0 /\ a > MaxI32 + b
    \/ b > 0 /\ a < MinI32 + b
MulOverflows(a, b) ==
    LET r == wrapping_mul(a, b)
    IN  CASE a = 0 \/ b = 0 -> FALSE
          [] a = -1 -> b = MinI32
          [] b = -1 -> a = MinI32
          [] a = MinI32 \/ b = MinI32 -> ~(a = 1 \/ b = 1)
          [] a > 0 -> r \div a # b
          [] OTHER -> r \div (-a) # -b

\* `a + b`, `a - b`, `a * b` on i32: on overflow a build with overflow checks
\* panics and a build without them wraps
IntAdd(a, b, checks) ==
    IF AddOverflows(a, b) /\ checks THEN Panic ELSE Done(wrapping_add(a, b))
IntSub(a, b, checks) ==
    IF SubOverflows(a, b) /\ checks THEN Panic ELSE Done(wrapping_sub(a, b))
\* A product that is the sum
IntMulAsAdd(a, b, checks) ==
    IF AddOverflows(a, b) /\ checks THEN Panic ELSE Done(wrapping_add(a, b))
IntMul(a, b, checks) ==
    IF MulOverflows(a, b) /\ checks THEN Panic ELSE Done(wrapping_mul(a, b))

\* Quotient rounded towards zero, for b # 0 and (a, b) # (MinI32, -1)
TruncDiv(a, b) ==
    LET pos(x, y) ==   \* y > 0
            IF x >= 0 \/ x % y = 0 THEN x \div y ELSE (x \div y) + 1
    IN  CASE b > 0 -> pos(a, b)
          [] b = MinI32 -> IF a = MinI32 THEN 1 ELSE 0
          [] OTHER -> -pos(a, -b)

\* `a / b` on i32 panics on a zero divisor and on MinI32 / -1, in every build
IntDiv(a, b, checks) ==
    IF b = 0 \/ (a = MinI32 /\ b = -1) THEN Panic ELSE Done(TruncDiv(a, b))

\* `a % b` on i32 panics on a zero divisor and on MinI32 % -1, in every build
IntRem(a, b, checks) ==
    IF b = 0 \/ (a = MinI32 /\ b = -1) THEN Panic
    ELSE Done(a - b * TruncDiv(a, b))

\* i32::pow(self, exp: u32): square and multiply, each product an i32 `*`
RECURSIVE PowLoop(_, _, _, _)
PowLoop(base, acc, exp, checks) ==
    IF exp <= 1 THEN IntMul(acc, base, checks)
    ELSE LET acc2 == IF exp % 2 = 1 THEN IntMul(acc, base, checks) ELSE Done(acc)
             base2 == IntMul(base, base, checks)
         IN  IF ~acc2.ok \/ ~base2.ok THEN Panic
             ELSE PowLoop(base2.v, acc2.v, exp \div 2, checks)

\* `val1.pow(val2 as u32)`, for val2 >= 0
IntPow(a, b, checks) == IF b = 0 THEN Done(1) ELSE PowLoop(a, 1, b, checks)

\* f64 arithmetic, exact on the halves of the model
FloatAdd(x, y) == x + y
FloatSub(x, y) == x - y
FloatMul(x, y) == CHOOSE q \in FloatDomain : 2 * q = x * y
FloatDiv(x, y) == CHOOSE q \in FloatDomain : y # 0 /\ q * y = 2 * x
FloatRem(x, y) ==
    CHOOSE r \in FloatDomain :
        /\ y # 0
        /\ \E k \in -64..64 : x = k * y + r
        /\ (IF y < 0 THEN -r < -y /\ r > y ELSE r < y /\ -r < y)
        /\ (x >= 0 => r >= 0) /\ (x <= 0 => r <= 0)
RECURSIVE FloatPowN(_, _)
FloatPowN(x, n) == IF n = 0 THEN 2 ELSE FloatMul(x, FloatPowN(x, n - 1))
\* f64::powf for a whole, non-negative exponent
FloatPow(x, y) ==
    FloatPowN(x, CHOOSE n \in 0..15 : 2 * n = y)

----------------------------------------------------------------------------
(* Instruction (instructions.rs): one record shape for every opcode; the    *)
(* fields an opcode does not carry hold 0, "", NoneV or <<>>.               *)

Instruction(op, a, b, c, name, value, args, returns) ==
    [op |-> op, a |-> a, b |-> b, c |-> c, name |-> name, value |-> value,
     args |-> args, returns |-> returns]

InsMove(reg, value) == Instruction("Move", reg, 0, 0, "", value, <<>>, "None")
InsMoveBetween(src, dst) == Instruction("MoveBetween", src, dst, 0, "", NoneV, <<>>, "None")
InsMoveArgument(arg, reg) == Instruction("MoveArgument", reg, 0, 0, arg, NoneV, <<>>, "None")
InsMoveAsArgument(reg) == Instruction("MoveAsArgument", reg, 0, 0, "", NoneV, <<>>, "None")
InsOp3(op, op1, op2, dst) == Instruction(op, op1, op2, dst, "", NoneV, <<>>, "None")
InsNot(src, dst) == Instruction("Not", src, dst, 0, "", NoneV, <<>>, "None")
InsReturn == Instruction("Return", 0, 0, 0, "", NoneV, <<>>, "None")
InsSetVariable(reg, name) == Instruction("SetVariable", reg, 0, 0, name, NoneV, <<>>, "None")
InsMovFromVariable(name, reg) == Instruction("MovFromVariable", reg, 0, 0, name, NoneV, <<>>, "None")
InsThrowFrom(reason_reg, msg_reg) ==
    Instruction("ThrowFrom", reason_reg, msg_reg, 0, "", NoneV, <<>>, "None")
InsDefineLabel(name) == Instruction("DefineLabel", 0, 0, 0, name, NoneV, <<>>, "None")
InsJumpUnconditional(name) == Instruction("JumpUnconditional", 0, 0, 0, name, NoneV, <<>>, "None")
InsJumpConditional(reg, name) == Instruction("JumpConditional", reg, 0, 0, name, NoneV, <<>>, "None")
InsCall(name) == Instruction("Call", 0, 0, 0, name, NoneV, <<>>, "None")
InsDefineFnLabel(name, args, returns) ==
    Instruction("DefineFnLabel", 0, 0, 0, name, NoneV, args, returns)
InsEndFunction == Instruction("EndFunction", 0, 0, 0, "", NoneV, <<>>, "None")
InsOp1(op, reg) == Instruction(op, reg, 0, 0, "", NoneV, <<>>, "None")
InsOp0(op) == Instruction(op, 0, 0, 0, "", NoneV, <<>>, "None")

----------------------------------------------------------------------------
(* Error names, as the bytes of their text *)

NameUnsetRegister == <<85, 110, 115, 101, 116, 82, 101, 103, 105, 115, 116, 101, 114>>
NameInvalidRegister == <<73, 110, 118, 97, 108, 105, 100, 82, 101, 103, 105, 115, 116, 101, 114>>
NameUndefinedArgument == <<85, 110, 100, 101, 102, 105, 110, 101, 100, 65, 114, 103, 117, 109, 101, 110, 116>>
NameUndefinedVariable == <<85, 110, 100, 101, 102, 105, 110, 101, 100, 86, 97, 114, 105, 97, 98, 108, 101>>
NameUnsetLabel == <<85, 110, 115, 101, 116, 76, 97, 98, 101, 108>>
NameUndefinedFunction == <<85, 110, 100, 101, 102, 105, 110, 101, 100, 70, 117, 110, 99, 116, 105, 111, 110>>
NameNotEnoughArguments == <<78, 111, 116, 69, 110, 111, 117, 103, 104, 65, 114, 103, 117, 109, 101, 110, 116, 115>>
NameStackOverflow == <<83, 116, 97, 99, 107, 79, 118, 101, 114, 102, 108, 111, 119>>
NameInvalidType == <<73, 110, 118, 97, 108, 105, 100, 84, 121, 112, 101>>
NameMathError == <<77, 97, 116, 104, 69, 114, 114, 111, 114>>
NameIOError == <<73, 79, 69, 114, 114, 111, 114>>

\* A backtrace that never stops at a number of frame blocks
backtrace_never_full(frame_count) == FALSE

\* if frame_count >= 8 { break; }
backtrace_full(frame_count) == frame_count >= 8

\* The loop of get_backtrace_string over the frames from the last one down.
\* The frames fs are held as runs of equal frames (see FrameRun); run k is the
\* next one and blocks are the "at <name>" blocks pushed so far.
\* A block is held as the frame it renders and the number its "times called"
\* line gives: the frames of the run counted before the loop breaks.
RECURSIVE backtrace_blocks(_, _, _)
backtrace_blocks(fs, k, blocks) ==
    IF k = 0 \/ backtrace_full(Len(blocks)) THEN blocks
    ELSE LET prev_frame_count ==
                 IF backtrace_full(Len(blocks) + 1) THEN 1 ELSE fs[k].count
         IN  backtrace_blocks(fs, k - 1,
                 Append(blocks, [frame |-> fs[k].frame, times |-> prev_frame_count]))

\* CallStack::get_backtrace_string
get_backtrace_string(fs) == backtrace_blocks(fs, Len(fs), <<>>)

\* MiError (result.rs). The message is kept as its format string and the
\* values interpolated into it; the backtrace as the frames it is rendered
\* from, with the blocks get_backtrace_string renders of them.
MiError(name, message, backtrace) ==
    [name |-> name, message |-> message, backtrace |-> backtrace,
     backtrace_string |-> get_backtrace_string(backtrace)]

Msg(text, values) == [text |-> text, values |-> values]

\* Result<Option<MiValue>, MiError> of run, and "not returned yet"
NoResult == [kind |-> "none", value |-> None, error |-> None]
\* An Ok that yields nothing; C15 tells it from the program's
OkNothing(value) == [kind |-> "ok", value |-> <<>>, error |-> <<>>]
Ok(value) == [kind |-> "ok", value |-> value, error |-> None]
Err(error) == [kind |-> "err", value |-> None, error |-> Some(error)]

----------------------------------------------------------------------------
(* Registers (registers.rs) *)

RegistersNew == [i \in 0..(NumRegisters - 1) |-> None]

\* Registers::get: None for an unset register and for an index out of range
RegistersGet(regs, index) ==
    IF index \in DOMAIN regs THEN regs[index] ELSE None

\* Registers::set succeeds iff the index names a register
RegistersSetOk(regs, index) == index \in DOMAIN regs

RegistersSet(regs, index, value) == [regs EXCEPT ![index] = Some(value)]

ErrInvalidRegister(index) ==
    MiError(NameInvalidRegister,
            Msg("The register {} is not valid as is not between 0-15", <<index>>),
            <<>>)

----------------------------------------------------------------------------
(* CallStack and StackFrame (stack.rs) *)

EmptyMap == [n \in {} |-> NoneV]

\* HashMap::insert
MapInsert(m, k, v) == [n \in DOMAIN m \cup {k} |-> IF n = k THEN v ELSE m[n]]

\* A frame that handles errors whatever it is given; C14 tells it from the
\* program's
StackFrameHandling(name, args, return_addr, handles_error, error_handling_addr) ==
    [name |-> name, args |-> args, local_variables |-> [n \in {} |-> 0],
     return_addr |-> return_addr, handles_error |-> TRUE,
     error_handling_addr |-> error_handling_addr]

StackFrame(name, args, return_addr, handles_error, error_handling_addr) ==
    [name |-> name, args |-> args, local_variables |-> EmptyMap,
     return_addr |-> return_addr, handles_error |-> handles_error,
     error_handling_addr |-> error_handling_addr]

\* CallStack.frames, a Vec<StackFrame>, is held as its runs: each element
\* stands for `count` equal frames in a row, bottom first, and no two
\* neighbouring runs hold the same frame. A recursion 3999 frames deep is a
\* few runs.
FrameRun(frame, count) == [frame |-> frame, count |-> count]

\* Vec::len
RECURSIVE StackLen(_)
StackLen(fs) ==
    IF fs = <<>> THEN 0
    ELSE fs[Len(fs)].count + StackLen(SubSeq(fs, 1, Len(fs) - 1))

\* Vec::last
last_frame(fs) == fs[Len(fs)].frame

\* Vec::push
Pushed(fs, frame) ==
    IF fs # <<>> /\ last_frame(fs) = frame
    THEN [fs EXCEPT ![Len(fs)].count = @ + 1]
    ELSE Append(fs, FrameRun(frame, 1))

\* A refusal that comes one frame late; C10 tells it from the program's
PushRefusedAbove(fs) == StackLen(fs) + 1 > max_size

\* CallStack::push_frame is refused when len + 1 >= max_size
PushRefused(fs) == StackLen(fs) + 1 >= max_size

\* A push that is answered with Ok and pushes nothing
push_frame_dropped(fs, frame) == fs

push_frame(fs, frame) == IF PushRefused(fs) THEN fs ELSE Pushed(fs, frame)

\* A pop that takes every frame; C11 tells it from the program's
pop_every_frame(fs) == SubSeq(fs, 1, 0)

\* CallStack::pop_frame, on a stack that is not empty
pop_frame(fs) ==
    IF fs[Len(fs)].count > 1
    THEN [fs EXCEPT ![Len(fs)].count = @ - 1]
    ELSE SubSeq(fs, 1, Len(fs) - 1)

\* A change of the innermost frame's locals that reaches every frame
ReplaceEvery(fs, frame) ==
    [i \in 1..Len(fs) |->
        FrameRun([fs[i].frame EXCEPT !.local_variables = frame.local_variables],
                 fs[i].count)]

\* CallStack::last_frame_mut followed by a change of the frame
ReplaceLast(fs, frame) == Pushed(pop_frame(fs), frame)

\* An unwinding that goes on to the outermost frame that handles errors
unwind_stack_outermost(fs) ==
    LET handlers == {i \in 1..Len(fs) : fs[i].frame.handles_error}
    IN  IF handlers = {} THEN [frames |-> <<>>, addr |-> None]
        ELSE LET k == CHOOSE i \in handlers : \A j \in handlers : i <= j
             IN  [frames |-> SubSeq(fs, 1, k - 1),
                  addr |-> Some(fs[k].frame.error_handling_addr)]

\* MirageRuntime::unwind_stack: pop until a popped frame handles errors;
\* addr is its error_handling_addr, or None when every frame was popped
unwind_stack(fs) ==
    LET handlers == {i \in 1..Len(fs) : fs[i].frame.handles_error}
    IN  IF handlers = {} THEN [frames |-> <<>>, addr |-> None]
        ELSE LET k == CHOOSE i \in handlers : \A j \in handlers : j <= i
             IN  [frames |-> pop_frame(SubSeq(fs, 1, k)),
                  addr |-> Some(fs[k].frame.error_handling_addr)]

----------------------------------------------------------------------------
(* Text: UTF-8 and the rendering of values (value.rs) *)

IsCont(b, i) == i <= Len(b) /\ b[i] \in 128..191
InRange(b, i, lo, hi) == i <= Len(b) /\ b[i] \in lo..hi

\* The first byte of b at i opens a well-formed UTF-8 sequence of this many
\* bytes; 0 when it opens none
Utf8SeqLen(b, i) ==
    LET c == b[i]
    IN  CASE c < 128 -> 1
          [] c \in 194..223 /\ IsCont(b, i + 1) -> 2
          [] c = 224 /\ InRange(b, i + 1, 160, 191) /\ IsCont(b, i + 2) -> 3
          [] c \in (225..236) \cup (238..239)
                /\ IsCont(b, i + 1) /\ IsCont(b, i + 2) -> 3
          [] c = 237 /\ InRange(b, i + 1, 128, 159) /\ IsCont(b, i + 2) -> 3
          [] c = 240 /\ InRange(b, i + 1, 144, 191)
                /\ IsCont(b, i + 2) /\ IsCont(b, i + 3) -> 4
          [] c \in 241..243
                /\ IsCont(b, i + 1) /\ IsCont(b, i + 2) /\ IsCont(b, i + 3) -> 4
          [] c = 244 /\ InRange(b, i + 1, 128, 143)
                /\ IsCont(b, i + 2) /\ IsCont(b, i + 3) -> 4
          [] OTHER -> 0

\* The second byte a lead byte admits
SecondOk(b, i) ==
    LET c == b[i]
    IN  CASE c \in 194..223 -> IsCont(b, i + 1)
          [] c = 224 -> InRange(b, i + 1, 160, 191)
          [] c \in (225..236) \cup (238..239) -> IsCont(b, i + 1)
          [] c = 237 -> InRange(b, i + 1, 128, 159)
          [] c = 240 -> InRange(b, i + 1, 144, 191)
          [] c \in 241..243 -> IsCont(b, i + 1)
          [] c = 244 -> InRange(b, i + 1, 128, 143)
          [] OTHER -> FALSE

\* Length of the ill-formed run at i that one U+FFFD replaces: the longest
\* prefix of a well-formed sequence, at least one byte
InvalidLen(b, i) ==
    CASE ~SecondOk(b, i) -> 1
      [] b[i] >= 240 /\ IsCont(b, i + 2) -> 3
      [] OTHER -> 2

RECURSIVE IsUtf8From(_, _)
IsUtf8From(b, i) ==
    IF i > Len(b) THEN TRUE
    ELSE LET n == Utf8SeqLen(b, i)
         IN  n > 0 /\ IsUtf8From(b, i + n)

IsUtf8(b) == IsUtf8From(b, 1)

\* String::from_utf8_lossy(..).to_string()
RECURSIVE LossyFrom(_, _)
LossyFrom(b, i) ==
    IF i > Len(b) THEN <<>>
    ELSE LET n == Utf8SeqLen(b, i)
         IN  IF n > 0 THEN SubSeq(b, i, i + n - 1) \o LossyFrom(b, i + n)
             ELSE <<239, 191, 189>> \o LossyFrom(b, i + InvalidLen(b, i))

from_utf8_lossy(b) == LossyFrom(b, 1)

\* Decimal digits of n >= 0, as ASCII
RECURSIVE Digits(_)
Digits(n) == IF n < 10 THEN <<48 + n>> ELSE Digits(n \div 10) \o <<48 + (n % 10)>>

\* format!("{}", num) for an i32
FormatI32(n) ==
    CASE n = MinI32 -> <<45>> \o Digits(MaxI32 \div 10) \o <<56>>
      [] n < 0 -> <<45>> \o Digits(-n)
      [] OTHER -> Digits(n)

\* format!("{}", num) for an f64 of the model
FormatF64(h) ==
    LET a == IF h < 0 THEN -h ELSE h
    IN  (IF h < 0 THEN <<45>> ELSE <<>>) \o Digits(a \div 2)
        \o (IF a % 2 = 1 THEN <<46, 53>> ELSE <<>>)

TextTrue == <<116, 114, 117, 101>>
TextFalse == <<102, 97, 108, 115, 101>>
TextNone == <<78, 111, 110, 101>>

\* bincode's deserialize::<String>: a u64 length, that many bytes of UTF-8;
\* bytes beyond them are not looked at
DeserializeString(b) ==
    IF Len(b) < 8 THEN Panic
    ELSE LET big == \E i \in 3..8 : b[i] # 0
             n == b[1] + 256 * b[2]
         IN  IF big \/ Len(b) < 8 + n THEN Panic
             ELSE IF ~IsUtf8(SubSeq(b, 9, 8 + n)) THEN Panic
             ELSE Done(SubSeq(b, 9, 8 + n))

\* impl ToString for MiValue: the text, or a panic of the interpreter.
\* Function and Class payloads are not modelled.
to_string(value) ==
    CASE value.variant = "Bool" ->
            IF Len(value.bytes) = 0 THEN Panic
            ELSE Done(IF value.bytes[1] = 1 THEN TextTrue ELSE TextFalse)
      [] value.variant = "String" -> DeserializeString(value.bytes)
      [] value.variant = "None" -> Done(TextNone)
      [] value.variant = "Int" ->
            IF ~IsI32Payload(value.bytes) THEN Panic
            ELSE Done(FormatI32(I32FromLeBytes(value.bytes)))
      [] value.variant = "Float" ->
            IF ~IsF64Payload(value.bytes) THEN Panic
            ELSE Done(FormatF64(F64FromLeBytes(value.bytes)))

\* impl ToStringDebugged for MiValue. For a String, `bytes[0..=4]` is a slice
\* of five bytes (or out of range), and its conversion into [u8; 4] fails:
\* the unwrap panics for every payload.
to_string_debugged(value) ==
    CASE value.variant = "String" -> Panic
      [] OTHER -> to_string(value)

----------------------------------------------------------------------------
(* MirageRuntime: setup and the pieces of one turn of run's loop *)

\* A setup that keeps the first definition of a label
SetupLabelsFirst(ins) ==
    LET at(n) == {i \in 1..Len(ins) : ins[i].op = "DefineLabel" /\ ins[i].name = n}
        names == {ins[i].name : i \in {j \in 1..Len(ins) : ins[j].op = "DefineLabel"}}
    IN  [n \in names |-> (CHOOSE i \in at(n) : \A j \in at(n) : i <= j) - 1]

\* MirageRuntime::setup: the last definition of a name wins
SetupLabels(ins) ==
    LET at(n) == {i \in 1..Len(ins) : ins[i].op = "DefineLabel" /\ ins[i].name = n}
        names == {ins[i].name : i \in {j \in 1..Len(ins) : ins[j].op = "DefineLabel"}}
    IN  [n \in names |-> (CHOOSE i \in at(n) : \A j \in at(n) : j <= i) - 1]

SetupFunctions(ins) ==
    LET at(n) == {i \in 1..Len(ins) : ins[i].op = "DefineFnLabel" /\ ins[i].name = n}
        names == {ins[i].name : i \in {j \in 1..Len(ins) : ins[j].op = "DefineFnLabel"}}
    IN  [n \in names |->
            LET i == CHOOSE i \in at(n) : \A j \in at(n) : j <= i
            IN  [args |-> ins[i].args, returns |-> ins[i].returns, pos |-> i - 1]]

\* A fetch without the increment; C12 tells it from the program's
IdxNotAdvanced == program_counter

\* The index the loop fetches in this turn: `self.program_counter += 1`
Idx == program_counter + 1

\* MirageRuntime::get_current, after the increment
HasCurrent == Idx >= 0 /\ Idx < Len(instructions)
Current == instructions[Idx + 1]

Fetch(op) == phase = "running" /\ HasCurrent /\ Current.op = op

\* What no instruction changes
Static ==
    UNCHANGED <<instructions, labels, function_addr_table, host, exit_code,
                main_tokens, main_parsed>>

\* The turn ends normally with the program counter at pc
Retire(pc) ==
    /\ program_counter' = pc
    /\ dispatched' = Idx
    /\ phase' = "running"
    /\ result' = result

\* The interpreter panics: the process aborts inside run
Abort ==
    /\ program_counter' = Idx
    /\ dispatched' = Idx
    /\ phase' = "panicked"
    /\ UNCHANGED <<result, registers, frames, argument_stack, stdout_last, stderr_last>>

\* MirageRuntime::throw on the frames fs with the program counter at `at`,
\* followed by `?`: unwind; with a handler the loop goes on at its address,
\* without one run returns the error
ThrowOn(fs, at, name, message) ==
    LET error == MiError(name, message, fs)
        u == unwind_stack(fs)
    IN  /\ frames' = u.frames
        /\ dispatched' = Idx
        /\ IF u.addr # None
           THEN program_counter' = u.addr[1] /\ phase' = "running" /\ result' = result
           ELSE program_counter' = at /\ phase' = "failed" /\ result' = Err(error)

\* `self.program_counter = self.throw(..)?; continue;` and nothing else
Throw(name, message) ==
    /\ ThrowOn(frames, Idx, name, message)
    /\ UNCHANGED <<registers, argument_stack, stdout_last, stderr_last>>

\* `self.registers.set(dst, value)?;` as the last effect of a turn
WriteRegister(dst, value) ==
    /\ IF RegistersSetOk(registers, dst)
       THEN registers' = RegistersSet(registers, dst, value) /\ Retire(Idx)
       ELSE /\ registers' = registers
            /\ program_counter' = Idx
            /\ dispatched' = Idx
            /\ phase' = "failed"
            /\ result' = Err(ErrInvalidRegister(dst))
    /\ UNCHANGED <<frames, argument_stack, stdout_last, stderr_last>>

MsgUnset(reg) == Msg("The register {} has not been set yet.", <<reg>>)
MsgNotNumeric(variant) == Msg("The type {:?} is not numeric", <<variant>>)
MsgNotBoolean(variant) == Msg("The type {:?} is not boolean", <<variant>>)
MsgDifferent(verb, v1, v2) ==
    Msg("Cannot {verb} two different types: {:?} and  {:?}", <<verb, v1, v2>>)

\* The operands of a three-register instruction, decoded:
\* i32::from_le_bytes(op.bytes..) and f64::from_le_bytes(op.bytes..)
IntVal1 == I32FromLeBytes(RegistersGet(registers, Current.a)[1].bytes)
IntVal2 == I32FromLeBytes(RegistersGet(registers, Current.b)[1].bytes)
FloatVal1 == F64FromLeBytes(RegistersGet(registers, Current.a)[1].bytes)
FloatVal2 == F64FromLeBytes(RegistersGet(registers, Current.b)[1].bytes)

\* Operand checks that look for an unset operand before they look at any
\* type
NumericOperandsUnsetFirst(verb, when_int, when_float) ==
    LET r1 == RegistersGet(registers, Current.a)
        r2 == RegistersGet(registers, Current.b)
    IN  IF r1 = None THEN Throw(NameUnsetRegister, MsgUnset(Current.a))
        ELSE IF r2 = None THEN Throw(NameUnsetRegister, MsgUnset(Current.b))
        ELSE IF ~is_numeric(r1[1].variant)
        THEN Throw(NameInvalidType, MsgNotNumeric(r1[1].variant))
        ELSE IF ~is_numeric(r2[1].variant)
        THEN Throw(NameInvalidType, MsgNotNumeric(r2[1].variant))
        ELSE IF r1[1].variant # r2[1].variant
        THEN Throw(NameInvalidType, MsgDifferent(verb, r1[1].variant, r2[1].variant))
        ELSE IF r1[1].variant = "Int"
        THEN IF IsI32Payload(r1[1].bytes) /\ IsI32Payload(r2[1].bytes)
             THEN when_int
             ELSE Abort
        ELSE IF IsF64Payload(r1[1].bytes) /\ IsF64Payload(r2[1].bytes)
             THEN when_float
             ELSE Abort

\* The operand checks shared by the arithmetic and ordering instructions
\* (Add, Sub, Mul, Div, Rem, Pow, Lt, Le, Gt, Ge): when_int and when_float
\* are what the instruction does with two Int and with two Float operands
NumericOperands(verb, when_int, when_float) ==
    LET r1 == RegistersGet(registers, Current.a)
        r2 == RegistersGet(registers, Current.b)
    IN  IF r1 = None THEN Throw(NameUnsetRegister, MsgUnset(Current.a))
        ELSE IF ~is_numeric(r1[1].variant)
        THEN Throw(NameInvalidType, MsgNotNumeric(r1[1].variant))
        ELSE IF r2 = None THEN Throw(NameUnsetRegister, MsgUnset(Current.b))
        ELSE IF ~is_numeric(r2[1].variant)
        THEN Throw(NameInvalidType, MsgNotNumeric(r2[1].variant))
        ELSE IF r1[1].variant # r2[1].variant
        THEN Throw(NameInvalidType, MsgDifferent(verb, r1[1].variant, r2[1].variant))
        ELSE IF r1[1].variant = "Int"
        THEN IF IsI32Payload(r1[1].bytes) /\ IsI32Payload(r2[1].bytes)
             THEN when_int
             ELSE Abort
        ELSE IF IsF64Payload(r1[1].bytes) /\ IsF64Payload(r2[1].bytes)
             THEN when_float
             ELSE Abort

\* Store the outcome of a native i32 operation in the destination
StoreInt(outcome) ==
    IF outcome.ok THEN WriteRegister(Current.c, IntV(outcome.v)) ELSE Abort

StoreFloat(h) == WriteRegister(Current.c, FloatV(h))

\* `vec![(val1 < val2) as u8]` with variant Bool
StoreBool(b) == WriteRegister(Current.c, BoolV(b))

OverflowChecks == host.overflow_checks

----------------------------------------------------------------------------
(* The instructions: one action per arm of run's match *)

Move ==
    /\ Fetch("Move") /\ Static
    /\ WriteRegister(Current.a, Current.value)

MoveBetween ==
    /\ Fetch("MoveBetween") /\ Static
    /\ LET value == RegistersGet(registers, Current.a)
       IN  IF value # None THEN WriteRegister(Current.b, value[1])
           ELSE Throw(NameUnsetRegister, MsgUnset(Current.a))

MoveArgument ==
    /\ Fetch("MoveArgument") /\ Static
    /\ IF frames = <<>> THEN Abort
       ELSE LET args == last_frame(frames).args
            IN  IF Current.name \in DOMAIN args
                THEN WriteRegister(Current.a, args[Current.name])
                ELSE Throw(NameUndefinedArgument,
                           Msg("The argument {} has not been defined yet.",
                               <<Current.name>>))

MoveAsArgument ==
    /\ Fetch("MoveAsArgument") /\ Static
    /\ LET value == RegistersGet(registers, Current.a)
       IN  IF value # None
           THEN /\ argument_stack' = Append(argument_stack, value[1])
                /\ Retire(Idx)
                /\ UNCHANGED <<registers, frames, stdout_last, stderr_last>>
           ELSE Throw(NameUnsetRegister, MsgUnset(Current.a))

Add ==
    /\ Fetch("Add") /\ Static
    /\ NumericOperands("add",
                       StoreInt(IntAdd(IntVal1, IntVal2, OverflowChecks)),
                       StoreFloat(FloatAdd(FloatVal1, FloatVal2)))

Sub ==
    /\ Fetch("Sub") /\ Static
    /\ NumericOperands("subtract",
                       StoreInt(IntSub(IntVal1, IntVal2, OverflowChecks)),
                       StoreFloat(FloatSub(FloatVal1, FloatVal2)))

Mul ==
    /\ Fetch("Mul") /\ Static
    /\ NumericOperands("multiply",
                       StoreInt(IntMul(IntVal1, IntVal2, OverflowChecks)),
                       StoreFloat(FloatMul(FloatVal1, FloatVal2)))

Div ==
    /\ Fetch("Div") /\ Static
    /\ NumericOperands("divide",
                       StoreInt(IntDiv(IntVal1, IntVal2, OverflowChecks)),
                       StoreFloat(FloatDiv(FloatVal1, FloatVal2)))

Rem ==
    /\ Fetch("Rem") /\ Static
    /\ NumericOperands("rem",
                       StoreInt(IntRem(IntVal1, IntVal2, OverflowChecks)),
                       StoreFloat(FloatRem(FloatVal1, FloatVal2)))

\* An exponent test that turns down 0 as well; C8 tells it from the program's
NonPositiveExponent(val2) == val2 <= 0

\* The exponent test of Pow on two Int operands: if val2 < 0
NegativeExponent(val2) == val2 < 0

Pow ==
    /\ Fetch("Pow") /\ Static
    /\ NumericOperands("power",
                       IF NegativeExponent(IntVal2)
                       THEN Throw(NameMathError,
                                  Msg("The exponent {val2} is not valid as it needs to be positive",
                                      <<IntVal2>>))
                       ELSE StoreInt(IntPow(IntVal1, IntVal2, OverflowChecks)),
                       StoreFloat(FloatPow(FloatVal1, FloatVal2)))

\* The truth of the operands of Or, Xor and And: op.bytes[0] != 0
b1 == RegistersGet(registers, Current.a)[1].bytes[1] # 0
b2 == RegistersGet(registers, Current.b)[1].bytes[1] # 0

\* The operand checks of Or, Xor and And as written: the test made once
\* the second operand is read looks at op1.variant again, not at op2.variant;
\* combined is the truth value the instruction stores
LogicOperands(combined) ==
    LET r1 == RegistersGet(registers, Current.a)
        r2 == RegistersGet(registers, Current.b)
    IN  IF r1 = None THEN Throw(NameUnsetRegister, MsgUnset(Current.a))
        ELSE IF r1[1].variant # "Bool"
        THEN Throw(NameInvalidType, MsgNotBoolean(r1[1].variant))
        ELSE IF r2 = None THEN Throw(NameUnsetRegister, MsgUnset(Current.b))
        ELSE IF r1[1].variant # "Bool"
        THEN Throw(NameInvalidType, MsgNotBoolean(r2[1].variant))
        ELSE IF Len(r1[1].bytes) = 0 \/ Len(r2[1].bytes) = 0
        THEN Abort    \* `op.bytes[0]` out of range
        ELSE StoreBool(combined)

Or ==
    /\ Fetch("Or") /\ Static
    /\ LogicOperands(b1 \/ b2)

Xor ==
    /\ Fetch("Xor") /\ Static
    /\ LogicOperands(b1 # b2)

And ==
    /\ Fetch("And") /\ Static
    /\ LogicOperands(b1 /\ b2)

Not ==
    /\ Fetch("Not") /\ Static
    /\ LET r1 == RegistersGet(registers, Current.a)
       IN  IF r1 = None THEN Throw(NameUnsetRegister, MsgUnset(Current.a))
           ELSE IF r1[1].variant # "Bool"
           THEN Throw(NameInvalidType, MsgNotBoolean(r1[1].variant))
           ELSE IF Len(r1[1].bytes) = 0 THEN Abort
           ELSE WriteRegister(Current.b, BoolV(~(r1[1].bytes[1] # 0)))

Lt ==
    /\ Fetch("Lt") /\ Static
    /\ NumericOperands("LT",
                       StoreBool(IntVal1 < IntVal2),
                       StoreBool(FloatVal1 < FloatVal2))

Le ==
    /\ Fetch("Le") /\ Static
    /\ NumericOperands("LE",
                       StoreBool(IntVal1 <= IntVal2),
                       StoreBool(FloatVal1 <= FloatVal2))

Gt ==
    /\ Fetch("Gt") /\ Static
    /\ NumericOperands("GT",
                       StoreBool(IntVal1 > IntVal2),
                       StoreBool(FloatVal1 > FloatVal2))

Ge ==
    /\ Fetch("Ge") /\ Static
    /\ NumericOperands("GE",
                       StoreBool(IntVal1 >= IntVal2),
                       StoreBool(FloatVal1 >= FloatVal2))

Eq ==
    /\ Fetch("Eq") /\ Static
    /\ LET op1 == RegistersGet(registers, Current.a)
           op2 == RegistersGet(registers, Current.b)
       IN  IF op1 = None THEN Throw(NameUnsetRegister, MsgUnset(Current.a))
           ELSE IF op2 = None THEN Throw(NameUnsetRegister, MsgUnset(Current.b))
           ELSE WriteRegister(Current.c, BoolV(op1[1] = op2[1]))

\* A Ne that answers as Eq does
NeAsEq ==
    /\ Fetch("Ne") /\ Static
    /\ LET op1 == RegistersGet(registers, Current.a)
           op2 == RegistersGet(registers, Current.b)
       IN  IF op1 = None THEN Throw(NameUnsetRegister, MsgUnset(Current.a))
           ELSE IF op2 = None THEN Throw(NameUnsetRegister, MsgUnset(Current.b))
           ELSE WriteRegister(Current.c, BoolV(op1[1] = op2[1]))

Ne ==
    /\ Fetch("Ne") /\ Static
    /\ LET op1 == RegistersGet(registers, Current.a)
           op2 == RegistersGet(registers, Current.b)
       IN  IF op1 = None THEN Throw(NameUnsetRegister, MsgUnset(Current.a))
           ELSE IF op2 = None THEN Throw(NameUnsetRegister, MsgUnset(Current.b))
           ELSE WriteRegister(Current.c, BoolV(op1[1] # op2[1]))

\* A Return that restores a register file saved at the Call, here the empty one
ReturnRestoring ==
    /\ Fetch("Return") /\ Static
    /\ IF frames = <<>> THEN Abort
       ELSE LET frame == last_frame(frames)
            IN  /\ frames' = pop_frame(frames)
                /\ dispatched' = Idx
                /\ registers' = RegistersNew
                /\ IF frame.return_addr # None
                   THEN /\ program_counter' = frame.return_addr[1]
                        /\ phase' = "running"
                        /\ result' = result
                   ELSE /\ program_counter' = Idx
                        /\ phase' = "returned"
                        /\ result' = Ok(RegistersGet(registers, ResultRegister))
                /\ UNCHANGED <<argument_stack, stdout_last, stderr_last>>

Return ==
    /\ Fetch("Return") /\ Static
    /\ IF frames = <<>> THEN Abort    \* panic!("No frame to return to")
       ELSE LET frame == last_frame(frames)
            IN  /\ frames' = pop_frame(frames)
                /\ dispatched' = Idx
                /\ IF frame.return_addr # None
                   THEN /\ program_counter' = frame.return_addr[1]
                        /\ phase' = "running"
                        /\ result' = result
                   ELSE /\ program_counter' = Idx
                        /\ phase' = "returned"
                        /\ result' = Ok(RegistersGet(registers, ResultRegister))
                /\ UNCHANGED <<registers, argument_stack, stdout_last, stderr_last>>

SetVariable ==
    /\ Fetch("SetVariable") /\ Static
    /\ LET value == RegistersGet(registers, Current.a)
       IN  IF value = None
           THEN Throw(NameUnsetRegister, Msg("The register {} is not valid.", <<Current.a>>))
           ELSE IF frames = <<>> THEN Abort    \* panic!("Current frame is not valid")
           ELSE /\ frames' = ReplaceLast(frames,
                                [last_frame(frames) EXCEPT !.local_variables =
                                    MapInsert(@, Current.name, value[1])])
                /\ Retire(Idx)
                /\ UNCHANGED <<registers, argument_stack, stdout_last, stderr_last>>

MovFromVariable ==
    /\ Fetch("MovFromVariable") /\ Static
    /\ IF frames = <<>> THEN Abort    \* panic!("Current frame is not valid")
       ELSE LET locals == last_frame(frames).local_variables
            IN  IF Current.name \in DOMAIN locals
                THEN WriteRegister(Current.a, locals[Current.name])
                ELSE Throw(NameUndefinedVariable,
                           Msg("Cannot move value of variable {} to register {} because {} is not defined.",
                               <<Current.name, Current.a, Current.name>>))

ThrowFrom ==
    /\ Fetch("ThrowFrom") /\ Static
    /\ LET reason == RegistersGet(registers, Current.a)
           msg == RegistersGet(registers, Current.b)
       IN  IF reason = None THEN Throw(NameUnsetRegister, MsgUnset(Current.a))
           ELSE IF msg = None THEN Throw(NameUnsetRegister, MsgUnset(Current.b))
           ELSE Throw(from_utf8_lossy(reason[1].bytes),
                      Msg("{}", <<from_utf8_lossy(msg[1].bytes)>>))

DefineLabel ==
    /\ Fetch("DefineLabel") /\ Static
    /\ Retire(Idx)
    /\ UNCHANGED <<registers, frames, argument_stack, stdout_last, stderr_last>>

MsgNoLabel(name) == Msg("The label {name} is currently not defined.", <<name>>)

\* A jump that leaves the program counter at the label itself, so that the
\* loop dispatches the instruction right after the DefineLabel
JumpToLabel(name) ==
    IF name \in DOMAIN labels
    THEN /\ Retire(labels[name])
         /\ UNCHANGED <<registers, frames, argument_stack, stdout_last, stderr_last>>
    ELSE Throw(NameUnsetLabel, MsgNoLabel(name))

\* `self.program_counter = label_pos + 1`, or UnsetLabel
JumpTo(name) ==
    IF name \in DOMAIN labels
    THEN /\ Retire(labels[name] + 1)
         /\ UNCHANGED <<registers, frames, argument_stack, stdout_last, stderr_last>>
    ELSE Throw(NameUnsetLabel, MsgNoLabel(name))

\* A JumpUnconditional that jumps nowhere and goes on with the next instruction
JumpUnconditionalFallingThrough ==
    /\ Fetch("JumpUnconditional") /\ Static
    /\ Retire(Idx)
    /\ UNCHANGED <<registers, frames, argument_stack, stdout_last, stderr_last>>

JumpUnconditional ==
    /\ Fetch("JumpUnconditional") /\ Static
    /\ JumpTo(Current.name)

JumpConditional ==
    /\ Fetch("JumpConditional") /\ Static
    /\ LET value == RegistersGet(registers, Current.a)
       IN  IF value = None THEN Throw(NameUnsetRegister, MsgUnset(Current.a))
           ELSE IF Len(value[1].bytes) = 0 THEN Abort    \* `value.bytes[0]` out of range
           ELSE IF value[1].bytes[1] = 1 THEN JumpTo(Current.name)
           ELSE /\ Retire(Idx)
                /\ UNCHANGED <<registers, frames, argument_stack, stdout_last, stderr_last>>

\* The arguments Call binds: the i-th declared name takes the i-th value
\* popped from the argument stack; a name declared twice keeps the later one
ArgsHash(args_names, stack, taken) ==
    LET of(n) == {i \in 1..taken : args_names[i] = n}
    IN  [n \in {args_names[i] : i \in 1..taken} |->
            stack[Len(stack) - (CHOOSE i \in of(n) : \A j \in of(n) : j <= i) + 1]]

\* An argument loop whose throws are all taken as handled, so that Call goes
\* on to push its frame with the arguments it found
ThrowsOnHandled(fs, pc, m) ==
    [handled |-> TRUE, frames |-> fs, pc |-> pc, backtrace |-> fs]

\* m throws in a row, as the argument loop of Call makes them when the
\* argument stack runs dry: each unwinds to the next handler
RECURSIVE ThrowsOn(_, _, _)
ThrowsOn(fs, pc, m) ==
    IF m = 0 THEN [handled |-> TRUE, frames |-> fs, pc |-> pc, backtrace |-> fs]
    ELSE LET u == unwind_stack(fs)
         IN  IF u.addr = None
             THEN [handled |-> FALSE, frames |-> u.frames, pc |-> pc, backtrace |-> fs]
             ELSE ThrowsOn(u.frames, u.addr[1], m - 1)

Call ==
    /\ Fetch("Call") /\ Static
    /\ IF Current.name \notin DOMAIN function_addr_table
       THEN Throw(NameUndefinedFunction,
                  Msg("Cannot call undefined function {name}", <<Current.name>>))
       ELSE LET fun == function_addr_table[Current.name]
                n == Len(fun.args)
                k == Len(argument_stack)
                taken == IF k < n THEN k ELSE n
                args_hash == ArgsHash(fun.args, argument_stack, taken)
                t == ThrowsOn(frames, Idx, n - taken)
                frame == StackFrame(Current.name, args_hash, Some(t.pc + 1), FALSE, 0)
            IN  /\ argument_stack' = SubSeq(argument_stack, 1, k - taken)
                /\ UNCHANGED <<registers, stdout_last, stderr_last>>
                /\ IF ~t.handled
                   THEN /\ frames' = t.frames
                        /\ program_counter' = t.pc
                        /\ dispatched' = Idx
                        /\ phase' = "failed"
                        /\ result' = Err(MiError(NameNotEnoughArguments,
                                Msg("Cannot satisfy the arguments size for the function {}: {}",
                                    <<Current.name, n>>),
                                t.backtrace))
                   ELSE IF PushRefused(t.frames)
                   THEN ThrowOn(t.frames, fun.pos, NameStackOverflow,
                                Msg("Call stack size exceeded the maximum limit of {}",
                                    <<max_size>>))
                   ELSE /\ frames' = push_frame(t.frames, frame)
                        /\ Retire(fun.pos)

\* A DefineFnLabel that leaves the program counter where it was, before the
\* DefineFnLabel
DefineFnLabelStaying ==
    /\ Fetch("DefineFnLabel") /\ Static
    /\ Retire(program_counter)
    /\ UNCHANGED <<registers, frames, argument_stack, stdout_last, stderr_last>>

\* A DefineFnLabel that skips nothing and falls through into the body
DefineFnLabelFallingThrough ==
    /\ Fetch("DefineFnLabel") /\ Static
    /\ Retire(Idx)
    /\ UNCHANGED <<registers, frames, argument_stack, stdout_last, stderr_last>>

\* The skip of a function body: advance to the first EndFunction after the
\* DefineFnLabel, or to the last instruction when there is none
DefineFnLabel ==
    /\ Fetch("DefineFnLabel") /\ Static
    /\ LET ends == {j \in (Idx + 1)..(Len(instructions) - 1) :
                        instructions[j + 1].op = "EndFunction"}
       IN  IF ends # {}
           THEN Retire(CHOOSE j \in ends : \A i \in ends : j <= i)
           ELSE Retire(Len(instructions) - 1)
    /\ UNCHANGED <<registers, frames, argument_stack, stdout_last, stderr_last>>

\* An EndFunction that pops the innermost frame, as the end of a call
EndFunctionPopping ==
    /\ Fetch("EndFunction") /\ Static
    /\ frames' = pop_frame(frames)
    /\ Retire(Idx)
    /\ UNCHANGED <<registers, argument_stack, stdout_last, stderr_last>>

EndFunction ==
    /\ Fetch("EndFunction") /\ Static
    /\ Retire(Idx)
    /\ UNCHANGED <<registers, frames, argument_stack, stdout_last, stderr_last>>

\* The four write instructions: render the register, write the text to the
\* stream; the write itself succeeds or fails as the stream decides
WriteTo(stream, debugged) ==
    LET value == RegistersGet(registers, Current.a)
    IN  IF value = None THEN Throw(NameUnsetRegister, MsgUnset(Current.a))
        ELSE LET text == IF debugged THEN to_string_debugged(value[1])
                         ELSE to_string(value[1])
             IN  IF ~text.ok THEN Abort
                 ELSE \E written \in BOOLEAN :
                        IF written
                        THEN /\ Retire(Idx)
                             /\ stdout_last' = IF stream = "stdout" THEN Some(text.v)
                                               ELSE stdout_last
                             /\ stderr_last' = IF stream = "stderr" THEN Some(text.v)
                                               ELSE stderr_last
                             /\ UNCHANGED <<registers, frames, argument_stack>>
                        ELSE Throw(NameIOError, Msg("Error writing to stderr: {}", <<>>))

StdoutWrite == Fetch("StdoutWrite") /\ Static /\ WriteTo("stdout", FALSE)

StdoutWriteDebugged ==
    Fetch("StdoutWriteDebugged") /\ Static /\ WriteTo("stdout", TRUE)

StderrWrite == Fetch("StderrWrite") /\ Static /\ WriteTo("stderr", FALSE)

StderrWriteDebugged ==
    Fetch("StderrWriteDebugged") /\ Static /\ WriteTo("stderr", TRUE)

\* `flush().unwrap()`: a failing flush panics
Flush ==
    \E flushed \in BOOLEAN :
        IF flushed
        THEN /\ Retire(Idx)
             /\ UNCHANGED <<registers, frames, argument_stack, stdout_last, stderr_last>>
        ELSE Abort

StdoutFlush == Fetch("StdoutFlush") /\ Static /\ Flush

StderrFlush == Fetch("StderrFlush") /\ Static /\ Flush

\* What stdin().read_line can give: a line with its newline, nothing at the
\* end of the input, or an error
StdinReads == {Done(<<104, 105, 10>>), Done(<<>>), [ok |-> FALSE, v |-> <<>>]}

BufferedStdinRead ==
    /\ Fetch("BufferedStdinRead") /\ Static
    /\ \E line \in StdinReads :
          IF line.ok THEN WriteRegister(Current.a, StringV(line.v))
          ELSE Throw(NameIOError, Msg("Unable to read a line from stdin: {}", <<>>))

\* get_current gives None: `break`, and run returns register 15
Exhausted ==
    /\ phase = "running" /\ ~HasCurrent /\ Static
    /\ program_counter' = Idx
    /\ phase' = "exhausted"
    /\ result' = Ok(RegistersGet(registers, ResultRegister))
    /\ UNCHANGED <<registers, frames, argument_stack, stdout_last, stderr_last, dispatched>>

----------------------------------------------------------------------------
(* The assembler's tokenizer (assembly/tokens.rs). A text is the sequence   *)
(* of the code points of its chars; the texts of the model are ASCII. A     *)
(* token's line, column and length are only quoted in messages and are left *)
(* out, as is the wording of the messages after their first words.          *)

\* Result<Vec<_>, String>
AsmOk(v) == [ok |-> TRUE, v |-> v, err |-> ""]
AsmErr(msg) == [ok |-> FALSE, v |-> <<>>, err |-> msg]

\* The printable ASCII chars from the space (code point 32) to the underscore
\* (95), and from a (97) to the tilde (126)
PrintableLow ==
    <<" ", "!", "\"", "#", "$", "%", "&", "'", "(", ")", "*", "+", ",", "-",
      ".", "/", "0", "1", "2", "3", "4", "5", "6", "7", "8", "9", ":", ";",
      "<", "=", ">", "?", "@", "A", "B", "C", "D", "E", "F", "G", "H", "I",
      "J", "K", "L", "M", "N", "O", "P", "Q", "R", "S", "T", "U", "V", "W",
      "X", "Y", "Z", "[", "\\", "]", "^", "_">>
PrintableHigh ==
    <<"a", "b", "c", "d", "e", "f", "g", "h", "i", "j", "k", "l", "m", "n",
      "o", "p", "q", "r", "s", "t", "u", "v", "w", "x", "y", "z", "{", "|",
      "}", "~">>

\* A String of the program as a string of the model
Chr(c) ==
    CASE c >= 32 /\ c <= 95 -> PrintableLow[c - 31]
      [] c >= 97 /\ c <= 126 -> PrintableHigh[c - 96]
      [] c = 10 -> "\n"
      [] c = 9 -> "\t"
      [] c = 13 -> "\r"
      [] OTHER -> "\\u" \o ToString(c)

RECURSIVE Join(_)
Join(chars) == IF chars = <<>> THEN "" ELSE Chr(chars[1]) \o Join(Tail(chars))

\* String::push(ch) and String::into_bytes: the UTF-8 bytes of the chars
RECURSIVE Utf8(_)
Utf8(chars) ==
    IF chars = <<>> THEN <<>>
    ELSE LET c == chars[1]
         IN  (CASE c < 128 -> <<c>>
                [] c < 2048 -> <<192 + (c \div 64), 128 + (c % 64)>>
                [] OTHER -> <<224 + (c \div 4096), 128 + ((c \div 64) % 64),
                              128 + (c % 64)>>)
             \o Utf8(Tail(chars))

\* char::is_whitespace, char::is_numeric and char::is_alphanumeric on ASCII
char_is_whitespace(c) == c \in {9, 10, 11, 12, 13, 32}
char_is_numeric(c) == c >= 48 /\ c <= 57
char_is_alphanumeric(c) ==
    \/ c >= 97 /\ c <= 122
    \/ c >= 65 /\ c <= 90
    \/ char_is_numeric(c)

\* 'a'..='z' | 'A'..='Z' | '_'
StartsIdentifier(c) == (c >= 97 /\ c <= 122) \/ (c >= 65 /\ c <= 90) \/ c = 95

\* enum TokenType, one record shape for every kind of token
Token(type, text, chars, num, truth) ==
    [type |-> type, text |-> text, chars |-> chars, num |-> num, truth |-> truth]
TokRegister(reg) == Token("Register", "", <<>>, reg, FALSE)
TokKeyword(word) == Token("Keyword", word, <<>>, 0, FALSE)
TokIdentifier(word) == Token("Identifier", word, <<>>, 0, FALSE)
TokType(word) == Token("Type", word, <<>>, 0, FALSE)
TokInt(num) == Token("Int", "", <<>>, num, FALSE)
TokFloat(halves) == Token("Float", "", <<>>, halves, FALSE)
TokString(chars) == Token("String", "", chars, 0, FALSE)
TokBoolean(truth) == Token("Boolean", "", <<>>, 0, truth)
TokComma == Token("Comma", "", <<>>, 0, FALSE)

\* The words pushed as TokenType::Keyword
Keywords ==
    {"move", "movebetween", "moveargument", "moveasargument",
     "add", "sub", "mul", "div", "rem", "pow", "or", "xor", "and",
     "not", "lt", "le", "gt", "ge", "return", "setvariable", "movfromvariable",
     "throwfrom", "eq", "ne", "definelabel", "jumpunc", "jumpc",
     "call", "definefnlabel", "endfunction", "stdoutwrite", "stdoutwritedebugged",
     "stdoutflush", "stderrwrite", "stderrwritedebugged", "stderrflush",
     "bufferedstdinread"}

\* The words pushed as TokenType::Type
TypeWords == {"int", "float", "string", "class", "function", "None"}

\* The end of the identifier begun before position i: the position of the
\* first char that is a whitespace or is none of alphanumeric, '_' and '.'
RECURSIVE IdentifierEnd(_, _)
IdentifierEnd(input, i) ==
    IF i > Len(input) THEN i
    ELSE IF char_is_whitespace(input[i]) THEN i
    ELSE IF char_is_alphanumeric(input[i]) \/ input[i] = 95 \/ input[i] = 46
    THEN IdentifierEnd(input, i + 1)
    ELSE i

\* identifier.starts_with("r") && last char is_numeric && identifier.len() <= 3
LooksLikeRegister(identifier) ==
    /\ identifier[1] = 114
    /\ char_is_numeric(identifier[Len(identifier)])
    /\ Len(identifier) <= 3

\* str::parse::<u8> and str::parse::<i32> on a text without sign: every char
\* a decimal digit, at least one of them, and the value within `max`
RECURSIVE ParseDecimal(_, _, _)
ParseDecimal(digits, acc, max) ==
    IF digits = <<>> THEN AsmOk(acc)
    ELSE IF ~char_is_numeric(digits[1]) THEN AsmErr("invalid digit found in string")
    ELSE LET d == digits[1] - 48
         IN  IF acc > (max - d) \div 10
             THEN AsmErr("number too large to fit in target type")
             ELSE ParseDecimal(Tail(digits), acc * 10 + d, max)

ParseU8(num) ==
    IF num = <<>> THEN AsmErr("cannot parse integer from empty string")
    ELSE ParseDecimal(num, 0, 255)

ParseI32(number) == ParseDecimal(number, 0, MaxI32)

\* str::parse::<f64> on digits, a dot and digits, in halves; the model holds
\* the floats that are a whole number of halves
ParseF64(number) ==
    LET dot == CHOOSE k \in 1..Len(number) : number[k] = 46
        whole == ParseDecimal(SubSeq(number, 1, dot - 1), 0, MaxI32 \div 2 - 1)
        fraction == SubSeq(number, dot + 1, Len(number))
    IN  IF ~whole.ok \/ fraction \notin {<<>>, <<48>>, <<53>>}
        THEN AsmErr("invalid float literal")
        ELSE AsmOk(2 * whole.v + (IF fraction = <<53>> THEN 1 ELSE 0))

\* A register test that lets every u8 through; C26 tells it from the
\* program's
InvalidRegisterIndexNever(reg) == reg >= 256

\* if reg >= 16
InvalidRegisterIndex(reg) == reg >= 16

\* The end of the number begun before position i: the position of the first
\* char that is not numeric. That char has been taken from the iterator too.
RECURSIVE NumberEnd(_, _)
NumberEnd(input, i) ==
    IF i > Len(input) THEN i
    ELSE IF char_is_numeric(input[i]) THEN NumberEnd(input, i + 1)
    ELSE i

\* The value of a hexadecimal digit, or -1
HexDigit(c) ==
    CASE c >= 48 /\ c <= 57 -> c - 48
      [] c >= 97 /\ c <= 102 -> c - 87
      [] c >= 65 /\ c <= 70 -> c - 55
      [] OTHER -> -1

\* u32::from_str_radix(&digits, 16) on four chars: a '+' may come first
from_str_radix(digits) ==
    LET body == IF digits[1] = 43 THEN Tail(digits) ELSE digits
    IN  IF \E k \in 1..Len(body) : HexDigit(body[k]) < 0
        THEN AsmErr("invalid digit found in string")
        ELSE AsmOk(IF Len(body) = 4
                   THEN 4096 * HexDigit(body[1]) + 256 * HexDigit(body[2])
                            + 16 * HexDigit(body[3]) + HexDigit(body[4])
                   ELSE 256 * HexDigit(body[1]) + 16 * HexDigit(body[2])
                            + HexDigit(body[3]))

\* char::from_u32 gives no char for a surrogate
IsChar(num) == ~(num >= 55296 /\ num <= 57343)

\* The scan of a string literal after its opening quote: what the literal
\* says and the position after its closing quote
Scanned(chars, next) == [ok |-> TRUE, chars |-> chars, next |-> next, err |-> ""]
ScanErr(msg) == [ok |-> FALSE, chars |-> <<>>, next |-> 0, err |-> msg]

\* The four chars taken after `\u`, where the backslash is at position i
UnicodeDigits(input, i) == SubSeq(input, i + 2, i + 5)

RECURSIVE ScanString(_, _, _)
ScanString(input, i, string) ==
    IF i > Len(input) THEN ScanErr("Unclosed string literal")
    ELSE LET ch == input[i]
         IN  CASE ch = 34 -> Scanned(string, i + 1)
               [] ch = 10 -> ScanString(input, i + 1, Append(string, 10))
               [] ch = 13 ->
                    IF i + 1 <= Len(input) /\ input[i + 1] = 10
                    THEN ScanString(input, i + 2, string \o <<13, 10>>)
                    ELSE ScanString(input, i + 1, Append(string, 13))
               [] ch = 92 ->
                    IF i + 1 > Len(input) THEN ScanErr("Unclosed string literal")
                    ELSE LET c == input[i + 1]
                         IN  CASE c = 110 -> ScanString(input, i + 2, Append(string, 10))
                               [] c = 114 -> ScanString(input, i + 2, Append(string, 13))
                               [] c = 116 -> ScanString(input, i + 2, Append(string, 9))
                               [] c = 92 -> ScanString(input, i + 2, Append(string, 92))
                               [] c = 48 -> ScanString(input, i + 2, Append(string, 0))
                               [] c = 34 -> ScanString(input, i + 2, Append(string, 34))
                               [] c = 117 ->
                                    IF i + 5 > Len(input)
                                    THEN ScanErr("A unicode escape sequence must have 4 hexadecimal digits")
                                    ELSE LET num == from_str_radix(UnicodeDigits(input, i))
                                         IN  IF ~num.ok
                                             THEN ScanErr("Error during unicode escape sequence parsing")
                                             ELSE IF IsChar(num.v)
                                             THEN ScanString(input, i + 6, Append(string, num.v))
                                             ELSE ScanString(input, i + 6, string)
                               [] OTHER -> ScanErr("Unknown escape sequence")
               [] OTHER -> ScanString(input, i + 1, Append(string, ch))

\* The position after the line comment whose body begins at position i
RECURSIVE CommentEnd(_, _)
CommentEnd(input, i) ==
    IF i > Len(input) THEN i
    ELSE IF input[i] = 10 THEN i + 1
    ELSE CommentEnd(input, i + 1)

\* One turn of the loop of tokenize, the character at position i being the
\* one iterator.next() returned: the tokens it pushes and the position the
\* iterator is left at, or the error it returns
Turn(next, pushed) == [ok |-> TRUE, next |-> next, pushed |-> pushed, err |-> ""]

TurnErr(msg) == [ok |-> FALSE, next |-> 0, pushed |-> <<>>, err |-> msg]

tokenize_character(input, i) ==
    LET character == input[i]
    IN  CASE StartsIdentifier(character) ->
               LET j == IdentifierEnd(input, i + 1)
                   identifier == SubSeq(input, i, j - 1)
                   word == Join(identifier)
               IN  IF word \in Keywords THEN Turn(j, <<TokKeyword(word)>>)
                   ELSE IF word \in {"true", "false"}
                   THEN Turn(j, <<TokBoolean(word = "true")>>)
                   ELSE IF word \in TypeWords THEN Turn(j, <<TokType(word)>>)
                   ELSE IF word = "plch" THEN Turn(j, <<>>)
                   ELSE IF LooksLikeRegister(identifier)
                   THEN LET res == ParseU8(Tail(identifier))
                        IN  IF ~res.ok
                            THEN TurnErr("Unable to parse register value")
                            ELSE IF InvalidRegisterIndex(res.v)
                            THEN TurnErr("Invalid register index")
                            ELSE Turn(j, <<TokRegister(res.v)>>)
                   ELSE Turn(j, <<TokIdentifier(word)>>)
          [] character = 44 -> Turn(i + 1, <<TokComma>>)
          [] char_is_numeric(character) ->
               LET j == NumberEnd(input, i + 1)
                   number == SubSeq(input, i, j - 1)
               IN  IF \E k \in 1..Len(number) : number[k] = 46
                   THEN LET parsed == ParseF64(number)
                        IN  IF parsed.ok
                            THEN Turn(j + 1, <<TokFloat(parsed.v)>>)
                            ELSE TurnErr("Error parsing float number")
                   ELSE LET parsed == ParseI32(number)
                        IN  IF parsed.ok
                            THEN Turn(j + 1, <<TokInt(parsed.v)>>)
                            ELSE TurnErr("Error parsing int number")
          [] character = 34 ->
               LET lit == ScanString(input, i + 1, <<>>)
               IN  IF lit.ok THEN Turn(lit.next, <<TokString(lit.chars)>>)
                   ELSE TurnErr(lit.err)
          [] character = 45 ->
               IF i + 1 <= Len(input) /\ input[i + 1] = 45
               THEN Turn(CommentEnd(input, i + 2), <<>>)
               ELSE TurnErr("Unrecognized token")
          [] OTHER ->
               IF char_is_whitespace(character) THEN Turn(i + 1, <<>>)
               ELSE TurnErr("Unrecognized token")

\* while let Some(character) = iterator.next(): the loop of tokenize from
\* position i on, tokens_stream holding the tokens pushed so far
RECURSIVE tokenize_from(_, _, _)
tokenize_from(input, i, tokens_stream) ==
    IF i > Len(input) THEN AsmOk(tokens_stream)
    ELSE LET turn == tokenize_character(input, i)
         IN  IF turn.ok
             THEN tokenize_from(input, turn.next, tokens_stream \o turn.pushed)
             ELSE AsmErr(turn.err)

\* pub fn tokenize(input: &str, filename: &str) -> Result<Vec<Token>, String>
tokenize(input) == tokenize_from(input, 1, <<>>)

----------------------------------------------------------------------------
(* The assembler's parser (assembly/parser.rs). self.pc is the position of  *)
(* the next token, counted from 1 here.                                      *)

\* What a parse_ function returns, with self.pc after it
Parsed(v, pc) == [ok |-> TRUE, v |-> v, pc |-> pc, err |-> ""]
ParseErr(msg) == [ok |-> FALSE, v |-> 0, pc |-> 0, err |-> msg]

parse_identifier(tokens, pc) ==
    IF pc > Len(tokens) THEN ParseErr("Unexpected end of tokens")
    ELSE IF tokens[pc].type = "Identifier" THEN Parsed(tokens[pc].text, pc + 1)
    ELSE ParseErr("Expected an identifier")

parse_int(tokens, pc) ==
    IF pc > Len(tokens) THEN ParseErr("Unexpected end of tokens")
    ELSE IF tokens[pc].type = "Int" THEN Parsed(tokens[pc].num, pc + 1)
    ELSE ParseErr("Unexpected token: expected token int")

parse_reg(tokens, pc) ==
    IF pc > Len(tokens) THEN ParseErr("Unexpected end of tokens")
    ELSE IF tokens[pc].type = "Register" THEN Parsed(tokens[pc].num, pc + 1)
    ELSE ParseErr("Unexpected token: expected token register")

parse_float(tokens, pc) ==
    IF pc > Len(tokens) THEN ParseErr("Unexpected end of tokens")
    ELSE IF tokens[pc].type = "Float" THEN Parsed(tokens[pc].num, pc + 1)
    ELSE ParseErr("Unexpected token: expected token float")

parse_string(tokens, pc) ==
    IF pc > Len(tokens) THEN ParseErr("Unexpected end of tokens")
    ELSE IF tokens[pc].type = "String" THEN Parsed(tokens[pc].chars, pc + 1)
    ELSE ParseErr("Unexpected token: expected token string")

parse_bool(tokens, pc) ==
    IF pc > Len(tokens) THEN ParseErr("Unexpected end of tokens")
    ELSE IF tokens[pc].type = "Boolean" THEN Parsed(tokens[pc].truth, pc + 1)
    ELSE ParseErr("Unexpected token: expected token bool")

\* The type words parse_type knows
parse_type(tokens, pc) ==
    IF pc > Len(tokens) THEN ParseErr("Unexpected end of tokens")
    ELSE IF tokens[pc].type # "Type" THEN ParseErr("Expected Type token")
    ELSE LET ttype == tokens[pc].text
         IN  CASE ttype = "None" -> Parsed("None", pc + 1)
               [] ttype = "int" -> Parsed("Int", pc + 1)
               [] ttype = "float" -> Parsed("Float", pc + 1)
               [] ttype = "string" -> Parsed("String", pc + 1)
               [] ttype = "boolean" -> Parsed("Bool", pc + 1)
               [] OTHER -> ParseErr("Unrecognized type")

\* Parser::parse_value: a Type token, then the literal its word asks for
parse_value(tokens, pc) ==
    IF pc > Len(tokens) THEN ParseErr("Unexpected end of tokens")
    ELSE IF tokens[pc].type # "Type" THEN ParseErr("Expected a value keyword")
    ELSE LET kw == tokens[pc].text
         IN  CASE kw = "None" -> Parsed(MiValue(<<>>, "None"), pc + 1)
               [] kw = "int" ->
                    LET value == parse_int(tokens, pc + 1)
                    IN  IF value.ok THEN Parsed(IntV(value.v), value.pc) ELSE value
               [] kw = "float" ->
                    LET value == parse_float(tokens, pc + 1)
                    IN  IF value.ok THEN Parsed(FloatV(value.v), value.pc) ELSE value
               [] kw = "string" ->
                    LET value == parse_string(tokens, pc + 1)
                    IN  IF value.ok THEN Parsed(StringV(Utf8(value.v)), value.pc) ELSE value
               [] kw = "bool" ->
                    LET value == parse_bool(tokens, pc + 1)
                    IN  IF value.ok THEN Parsed(BoolV(value.v), value.pc) ELSE value
               [] OTHER -> ParseErr("Invalid value keyword")

\* The keywords that take three registers, two registers, one register and
\* one identifier, with the Instruction each of them builds
ThreeRegisterWords ==
    [add |-> "Add", sub |-> "Sub", mul |-> "Mul", div |-> "Div", rem |-> "Rem",
     pow |-> "Pow", or |-> "Or", xor |-> "Xor", and |-> "And", lt |-> "Lt",
     le |-> "Le", gt |-> "Gt", ge |-> "Ge", eq |-> "Eq", ne |-> "Ne"]
TwoRegisterWords ==
    [movebetween |-> "MoveBetween", not |-> "Not", throwfrom |-> "ThrowFrom"]
OneRegisterWords ==
    [moveasargument |-> "MoveAsArgument", stdoutwrite |-> "StdoutWrite",
     stdoutwritedebugged |-> "StdoutWriteDebugged", stderrwrite |-> "StderrWrite",
     stderrwritedebugged |-> "StderrWriteDebugged",
     bufferedstdinread |-> "BufferedStdinRead"]
IdentifierWords ==
    [definelabel |-> "DefineLabel", jumpunc |-> "JumpUnconditional", call |-> "Call"]
NoOperandWords ==
    [return |-> "Return", endfunction |-> "EndFunction", stdoutflush |-> "StdoutFlush",
     stderrflush |-> "StderrFlush"]

\* As many names as the count of a definefnlabel
args_len_whole(len) == len

\* if len != 0 { for _ in 0..len - 1 { ... } }: the names read after the count
args_len(len) == IF len # 0 THEN len - 1 ELSE 0

\* for _ in 0..len - 1 { args.push(self.parse_identifier()?) }
RECURSIVE parse_args(_, _, _, _)
parse_args(tokens, pc, count, args) ==
    IF count = 0 THEN Parsed(args, pc)
    ELSE LET arg == parse_identifier(tokens, pc)
         IN  IF arg.ok THEN parse_args(tokens, arg.pc, count - 1, Append(args, arg.v))
             ELSE arg

\* The arm of one keyword: the Instruction it pushes, the keyword being the
\* token before position pc
parse_keyword(tokens, kw, pc) ==
    LET r1 == parse_reg(tokens, pc)
        r2 == parse_reg(tokens, r1.pc)
        r3 == parse_reg(tokens, r2.pc)
    IN  CASE kw = "move" ->
               LET val == parse_value(tokens, r1.pc)
               IN  IF ~r1.ok THEN r1 ELSE IF ~val.ok THEN val
                   ELSE Parsed(InsMove(r1.v, val.v), val.pc)
          [] kw \in DOMAIN ThreeRegisterWords ->
               IF ~r1.ok THEN r1 ELSE IF ~r2.ok THEN r2 ELSE IF ~r3.ok THEN r3
               ELSE Parsed(InsOp3(ThreeRegisterWords[kw], r1.v, r2.v, r3.v), r3.pc)
          [] kw \in DOMAIN TwoRegisterWords ->
               IF ~r1.ok THEN r1 ELSE IF ~r2.ok THEN r2
               ELSE Parsed(Instruction(TwoRegisterWords[kw], r1.v, r2.v, 0, "", NoneV,
                                       <<>>, "None"), r2.pc)
          [] kw \in DOMAIN OneRegisterWords ->
               IF ~r1.ok THEN r1 ELSE Parsed(InsOp1(OneRegisterWords[kw], r1.v), r1.pc)
          [] kw \in DOMAIN NoOperandWords -> Parsed(InsOp0(NoOperandWords[kw]), pc)
          [] kw \in DOMAIN IdentifierWords ->
               LET label == parse_identifier(tokens, pc)
               IN  IF ~label.ok THEN label
                   ELSE Parsed(Instruction(IdentifierWords[kw], 0, 0, 0, label.v, NoneV,
                                           <<>>, "None"), label.pc)
          [] kw = "moveargument" ->
               LET arg == parse_string(tokens, pc)
                   addr == parse_reg(tokens, arg.pc)
               IN  IF ~arg.ok THEN arg ELSE IF ~addr.ok THEN addr
                   ELSE Parsed(InsMoveArgument(Join(arg.v), addr.v), addr.pc)
          [] kw = "setvariable" ->
               LET var == parse_identifier(tokens, r1.pc)
               IN  IF ~r1.ok THEN r1 ELSE IF ~var.ok THEN var
                   ELSE Parsed(InsSetVariable(r1.v, var.v), var.pc)
          [] kw = "movfromvariable" ->
               LET ident == parse_identifier(tokens, pc)
                   reg == parse_reg(tokens, ident.pc)
               IN  IF ~ident.ok THEN ident ELSE IF ~reg.ok THEN reg
                   ELSE Parsed(InsMovFromVariable(ident.v, reg.v), reg.pc)
          [] kw = "jumpc" ->
               LET label == parse_identifier(tokens, r1.pc)
               IN  IF ~r1.ok THEN r1 ELSE IF ~label.ok THEN label
                   ELSE Parsed(InsJumpConditional(r1.v, label.v), label.pc)
          [] kw = "definefnlabel" ->
               LET name == parse_identifier(tokens, pc)
                   len == parse_int(tokens, name.pc)
                   args == parse_args(tokens, len.pc, args_len(len.v), <<>>)
                   returns == parse_type(tokens, args.pc)
               IN  IF ~name.ok THEN name ELSE IF ~len.ok THEN len
                   ELSE IF ~args.ok THEN args ELSE IF ~returns.ok THEN returns
                   ELSE Parsed(InsDefineFnLabel(name.v, args.v, returns.v), returns.pc)
          [] OTHER -> ParseErr("Invalid keyword")

\* The loop of Parser::parse from position pc on
RECURSIVE parse_from(_, _, _)
parse_from(tokens, pc, pushed) ==
    IF pc > Len(tokens) THEN AsmOk(pushed)
    ELSE IF tokens[pc].type # "Keyword" THEN AsmErr("Invalid position for token")
    ELSE LET ins == parse_keyword(tokens, tokens[pc].text, pc + 1)
         IN  IF ins.ok THEN parse_from(tokens, ins.pc, Append(pushed, ins.v))
             ELSE AsmErr(ins.err)

\* Parser::new(tokens).parse()
parse(tokens) == parse_from(tokens, 1, <<>>)

----------------------------------------------------------------------------
(* main (main.rs): the build branch, and the run branch around run *)

\* ExitCode::SUCCESS and ExitCode::FAILURE
SUCCESS == 0
FAILURE == 1

\* The stages of the build branch that the files decide: those before the
\* main file is tokenized, and those after it is parsed
StagesBefore ==
    {"open manifest", "read manifest", "parse manifest", "open main file",
     "read main file"}
StagesAfter == {"create output", "serialize", "write output"}
BuildStages == StagesBefore \cup StagesAfter

\* The build branch returns FAILURE from the arm of the stage that reports
\* a diagnostic and SUCCESS once the image is written
BuildExitCode(diagnostic) == IF diagnostic = None THEN SUCCESS ELSE FAILURE

\* The run branch after run has returned: the Ok arm returns SUCCESS; the
\* Err arm prints the error and falls through to the `return
\* ExitCode::SUCCESS` that follows the match on the decoded metadata
RunExitCode(res) == IF res.kind = "ok" THEN SUCCESS ELSE SUCCESS

\* The same `return ExitCode::SUCCESS` ends the arm of an image that does not
\* decode
UndecodableExitCode == SUCCESS

\* The build branch up to main_file_string: the manifest and the main file
\* are opened and read
MainBuild ==
    /\ phase = "main" /\ host.option = "build"
    /\ IF host.diagnostic # None /\ host.diagnostic[1] \in StagesBefore
       THEN exit_code' = Some(BuildExitCode(host.diagnostic)) /\ phase' = "exited"
       ELSE exit_code' = exit_code /\ phase' = "read"
    /\ UNCHANGED <<instructions, labels, function_addr_table, registers, frames,
                   program_counter, argument_stack, stdout_last, stderr_last,
                   result, dispatched, host, main_tokens, main_parsed>>

\* assembly::tokens::tokenize(&main_file_string, &manifest.main_file)
MainTokenize ==
    /\ phase = "read"
    /\ main_tokens' = tokenize(host.text)
    /\ IF main_tokens'.ok
       THEN exit_code' = exit_code /\ phase' = "tokenized"
       ELSE exit_code' = Some(BuildExitCode(Some("tokenize"))) /\ phase' = "exited"
    /\ UNCHANGED <<instructions, labels, function_addr_table, registers, frames,
                   program_counter, argument_stack, stdout_last, stderr_last,
                   result, dispatched, host, main_parsed>>

\* Parser::new(tokens).parse()
MainParse ==
    /\ phase = "tokenized"
    /\ main_parsed' = parse(main_tokens.v)
    /\ IF main_parsed'.ok
       THEN exit_code' = exit_code /\ phase' = "parsed"
       ELSE exit_code' = Some(BuildExitCode(Some("parse"))) /\ phase' = "exited"
    /\ UNCHANGED <<instructions, labels, function_addr_table, registers, frames,
                   program_counter, argument_stack, stdout_last, stderr_last,
                   result, dispatched, host, main_tokens>>

\* File::create, bincode::serialize and write_all of the Metadata that holds
\* the instructions
MainWrite ==
    /\ phase = "parsed"
    /\ exit_code' = Some(BuildExitCode(host.diagnostic))
    /\ phase' = "exited"
    /\ UNCHANGED <<instructions, labels, function_addr_table, registers, frames,
                   program_counter, argument_stack, stdout_last, stderr_last,
                   result, dispatched, host, main_tokens, main_parsed>>

\* The image the build has written is run: main starts again with the
\* option run and that image as its input
RunBuilt ==
    /\ phase = "exited" /\ host.option = "build" /\ exit_code = Some(SUCCESS)
    /\ host' = [host EXCEPT !.option = "run", !.image = main_parsed.v]
    /\ phase' = "main"
    /\ exit_code' = None
    /\ UNCHANGED <<instructions, labels, function_addr_table, registers, frames,
                   program_counter, argument_stack, stdout_last, stderr_last,
                   result, dispatched, main_tokens, main_parsed>>

\* File::open, read_to_end, bincode::deserialize, MirageRuntime::new
MainRun ==
    /\ phase = "main" /\ host.option = "run"
    /\ IF ~host.open_ok \/ ~host.read_ok
       THEN exit_code' = Some(FAILURE) /\ phase' = "exited" /\ instructions' = instructions
       ELSE IF ~host.decode_ok
       THEN /\ exit_code' = Some(UndecodableExitCode)
            /\ phase' = "exited"
            /\ instructions' = instructions
       ELSE exit_code' = exit_code /\ phase' = "new" /\ instructions' = host.image
    /\ UNCHANGED <<labels, function_addr_table, registers, frames, program_counter,
                   argument_stack, stdout_last, stderr_last, result, dispatched, host,
                   main_tokens, main_parsed>>

Setup ==
    /\ phase = "new"
    /\ labels' = SetupLabels(instructions)
    /\ function_addr_table' = SetupFunctions(instructions)
    /\ phase' = "ready"
    /\ UNCHANGED <<instructions, registers, frames, program_counter, argument_stack,
                   stdout_last, stderr_last, result, dispatched, host, exit_code,
                   main_tokens, main_parsed>>

\* The head of run: push the Main frame
RunBegin ==
    /\ phase = "ready"
    /\ frames' = push_frame(frames, StackFrame("Main", EmptyMap, None, FALSE, 0))
    /\ phase' = "running"
    /\ UNCHANGED <<instructions, labels, function_addr_table, registers,
                   program_counter, argument_stack, stdout_last, stderr_last,
                   result, dispatched, host, exit_code, main_tokens, main_parsed>>

MainRunReturned ==
    /\ phase \in {"returned", "exhausted", "failed"}
    /\ exit_code' = Some(RunExitCode(result))
    /\ phase' = "exited"
    /\ UNCHANGED <<instructions, labels, function_addr_table, registers, frames,
                   program_counter, argument_stack, stdout_last, stderr_last,
                   result, dispatched, host, main_tokens, main_parsed>>

\* A panic inside run unwinds through main: the process exits with the
\* status of a panic
PanicExitCode == 101

MainPanicked ==
    /\ phase = "panicked"
    /\ exit_code' = Some(PanicExitCode)
    /\ phase' = "exited"
    /\ UNCHANGED <<instructions, labels, function_addr_table, registers, frames,
                   program_counter, argument_stack, stdout_last, stderr_last,
                   result, dispatched, host, main_tokens, main_parsed>>

----------------------------------------------------------------------------
(* The programs the model runs *)

IntLiterals == (-MaxLit..MaxLit) \cup {MaxI32, MinI32}

TextA == <<97>>

\* Values a Move can carry: the canonical encodings the parser emits, and a
\* Bool whose byte is neither 0 nor 1, as an image can hold
Values ==
    {IntV(n) : n \in IntLiterals}
    \cup {FloatV(2), FloatV(4)}
    \cup {BoolV(TRUE), BoolV(FALSE), MiValue(<<2>>, "Bool")}
    \cup {NoneV, StringV(TextA), StringV(NameMathError)}

\* One value of each kind
FewValues == {IntV(1), FloatV(2), BoolV(TRUE), NoneV, StringV(TextA)}

Op3Names ==
    {"Add", "Sub", "Mul", "Div", "Rem", "Pow", "Or", "Xor", "And",
     "Lt", "Le", "Gt", "Ge", "Eq", "Ne"}

\* Register operands: two registers in range, the result register, and the
\* first index out of range
FewRegisters == {0, 1, ResultRegister, NumRegisters}

\* Two operands moved into registers, then a three-register instruction
BinaryPrograms ==
    {<<InsMove(0, v1), InsMove(1, v2), InsOp3(op, 0, 1, 2), InsOp1("StdoutWrite", 2)>> :
        v1 \in Values, v2 \in Values, op \in Op3Names}

\* Register 0 and 1 set, then one instruction with each choice of operands
RegisterPrograms ==
    LET head == <<InsMove(0, BoolV(TRUE)), InsMove(1, IntV(1))>>
    IN  {head \o <<InsOp3(op, a, b, c)>> :
            op \in Op3Names, a \in FewRegisters, b \in FewRegisters, c \in FewRegisters}
        \cup {head \o <<i>> :
            i \in {InsMoveBetween(a, b) : a \in FewRegisters, b \in FewRegisters}
                \cup {InsNot(a, b) : a \in FewRegisters, b \in FewRegisters}
                \cup {InsThrowFrom(a, b) : a \in FewRegisters, b \in FewRegisters}
                \cup {InsMove(a, IntV(2)) : a \in FewRegisters}
                \cup {InsMoveAsArgument(a) : a \in FewRegisters}
                \cup {InsSetVariable(a, "x") : a \in FewRegisters}
                \cup {InsJumpConditional(a, "L") : a \in FewRegisters}
                \cup {InsOp1(op, a) : a \in FewRegisters,
                        op \in {"StdoutWrite", "StdoutWriteDebugged", "StderrWrite",
                                "StderrWriteDebugged", "BufferedStdinRead"}}}
        \cup {<<InsMove(0, IntV(1)), InsSetVariable(0, "x"), InsMovFromVariable("x", a)>> :
                a \in FewRegisters}
        \cup {<<InsDefineFnLabel("f", <<"x">>, "Int"), InsMoveArgument("x", a), InsReturn,
                InsEndFunction, InsMove(0, IntV(1)), InsMoveAsArgument(0), InsCall("f")>> :
                a \in FewRegisters}

\* A value, one instruction that looks at it, and instructions after it
UnaryPrograms ==
    {<<InsMove(0, v), InsJumpConditional(0, l), InsMove(1, IntV(1)), InsDefineLabel("L"),
       InsMove(2, IntV(2)), InsMove(3, IntV(3))>> : v \in Values, l \in {"L", "M"}}
    \cup {<<InsMove(0, v), InsNot(0, 1), InsOp1("StderrWrite", 1)>> : v \in Values}
    \cup {<<InsMove(0, v), InsOp1("StdoutWrite", 0), InsOp0("StdoutFlush"),
            InsOp1("StdoutWriteDebugged", 0), InsOp1("StderrWrite", 0),
            InsOp1("StderrWriteDebugged", 0), InsOp0("StderrFlush"),
            InsOp1("BufferedStdinRead", ResultRegister), InsReturn>> : v \in Values}
    \cup {<<InsMove(0, v1), InsMove(1, v2), InsThrowFrom(0, 1)>> :
            v1 \in FewValues \cup {StringV(NameMathError)}, v2 \in FewValues}

\* Functions, calls and returns
CallPrograms ==
    \* a call and its return, with instructions after the call
    {<<InsDefineFnLabel("f", <<>>, "None"), InsMove(0, IntV(1)), InsReturn, InsEndFunction,
       InsCall("f"), InsMove(1, IntV(1)), InsMove(2, IntV(2)), InsReturn>>}
    \* two parameters, arguments pushed one after the other
    \cup {<<InsDefineFnLabel("f", <<"x", "y">>, "Int"), InsMoveArgument("x", 0),
            InsMoveArgument("y", 1), InsSetVariable(0, "v"), InsReturn, InsEndFunction,
            InsMove(2, v1), InsMoveAsArgument(2), InsMove(2, v2), InsMoveAsArgument(2),
            InsCall("f"), InsMovFromVariable("v", 3), InsMove(4, IntV(2))>> :
            v1 \in FewValues, v2 \in FewValues}
    \* one parameter (scenario 5 of the specification), and a following write
    \cup {<<InsDefineFnLabel("id", <<"x">>, "Int"), InsMoveArgument("x", 0), InsReturn,
            InsEndFunction, InsMove(0, v), InsMoveAsArgument(0), InsCall("id"),
            InsOp1("StdoutWrite", 0), InsOp1("StdoutWrite", 0)>> : v \in FewValues}
    \* too few arguments, an unknown function, a label used as a function
    \cup {<<InsDefineFnLabel("f", <<"x", "y">>, "Int"), InsReturn, InsEndFunction,
            InsDefineLabel("L"), InsMove(0, IntV(1)), InsMoveAsArgument(0), InsCall(n)>> :
            n \in {"f", "g", "L"}}
    \* a function without Return, which runs through its EndFunction
    \cup {<<InsCall("f"), InsReturn, InsDefineFnLabel("f", <<>>, "None"),
            InsMove(0, IntV(1)), InsEndFunction, InsMove(1, IntV(1)), InsReturn, InsReturn>>}
    \* a function that reads a variable only its caller has set
    \cup {<<InsDefineFnLabel("f", <<>>, "None"), InsMovFromVariable("v", 1), InsReturn,
            InsEndFunction, InsMove(0, IntV(1)), InsSetVariable(0, "v"), InsCall("f"),
            InsMove(2, IntV(2))>>}
    \* a function body that no EndFunction closes, and one that ends the program
    \cup {<<InsMove(0, IntV(1)), InsDefineFnLabel("f", <<>>, "None"), InsMove(1, IntV(1)),
            last>> : last \in {InsReturn, InsEndFunction}}
    \* a function that calls itself without end
    \cup {<<InsDefineFnLabel("f", <<>>, "None"), InsCall("f"), InsEndFunction, InsCall("f")>>}
    \* a function that calls itself once more while register 0 holds true
    \cup {<<InsDefineFnLabel("f", <<>>, "None"), InsNot(0, 0), InsJumpConditional(0, "L"),
            InsReturn, InsDefineLabel("L"), InsEndFunction, InsCall("f"), InsReturn,
            InsEndFunction, InsMove(0, v), InsCall("f"), InsOp1("StdoutWrite", 0),
            InsOp1("StdoutWrite", 0)>> : v \in {BoolV(TRUE), BoolV(FALSE)}}

\* Functions that call one another in a chain, the last one defined first;
\* the innermost body is the instruction inner
ChainNames == <<"f1", "f2", "f3", "f4", "f5", "f6", "f7", "f8", "f9">>

ChainProgram(inner) ==
    [i \in 1..(4 * Len(ChainNames) + 1) |->
        LET k == Len(ChainNames) - (i - 1) \div 4
        IN  IF i = 4 * Len(ChainNames) + 1 THEN InsCall(ChainNames[1])
            ELSE CASE (i - 1) % 4 = 0 -> InsDefineFnLabel(ChainNames[k], <<>>, "None")
                   [] (i - 1) % 4 = 1 ->
                        IF k = Len(ChainNames) THEN inner ELSE InsCall(ChainNames[k + 1])
                   [] (i - 1) % 4 = 2 -> InsReturn
                   [] OTHER -> InsEndFunction]

\* The chain with an innermost body that reads an unset register, and one
\* that calls a function nothing defines
ChainPrograms ==
    {ChainProgram(inner) : inner \in {InsOp1("StdoutWrite", 1), InsCall("g")}}

\* The definitions of functions that call one another in a chain, the last
\* of names defined first; the innermost body is the instruction inner
ChainBodies(names, inner) ==
    [i \in 1..(4 * Len(names)) |->
        LET k == Len(names) - (i - 1) \div 4
        IN  CASE (i - 1) % 4 = 0 -> InsDefineFnLabel(names[k], <<>>, "None")
              [] (i - 1) % 4 = 1 ->
                   IF k = Len(names) THEN inner ELSE InsCall(names[k + 1])
              [] (i - 1) % 4 = 2 -> InsReturn
              [] OTHER -> InsEndFunction]

\* A function r that calls itself until register 2 has counted up to
\* register 4 and then calls a chain of 7 functions whose innermost body
\* reads an unset register: the stack then holds, from the innermost frame
\* outward, 7 different frames and a run of equal frames of r
DeepProgram(depth) ==
    <<InsDefineFnLabel("r", <<>>, "None"), InsOp3("Add", 2, 3, 2), InsOp3("Eq", 2, 4, 5),
      InsJumpConditional(5, "Deep"), InsCall("r"), InsReturn, InsDefineLabel("Deep"),
      InsMove(6, IntV(0)), InsCall(ChainNames[1]), InsReturn, InsEndFunction>>
    \o ChainBodies(SubSeq(ChainNames, 1, 7), InsOp1("StdoutWrite", 1))
    \o <<InsMove(2, IntV(0)), InsMove(3, IntV(1)), InsMove(4, IntV(depth)), InsCall("r")>>

DeepPrograms == {DeepProgram(depth) : depth \in {2, 3, 4}}

\* A label and a function each defined twice, then jumped to and called
TablePrograms ==
    {<<InsJumpUnconditional("L"), InsDefineLabel("L"), InsMove(0, IntV(1)),
       InsDefineLabel("L"), InsMove(1, IntV(1)), InsMove(2, v),
       InsDefineFnLabel("f", <<"x">>, "Int"), InsReturn, InsEndFunction,
       InsDefineFnLabel("f", <<>>, "None"), InsMove(3, IntV(1)), InsReturn, InsEndFunction,
       InsCall("f"), InsMove(4, IntV(2))>> : v \in FewValues}

\* The literal scenarios of the specification
ScenarioPrograms ==
    {<<InsMove(0, StringV(<<72, 105, 10>>)), InsOp1("StdoutWrite", 0), InsOp0("StdoutFlush"),
       InsReturn>>,
     <<InsDefineLabel("L"), InsMove(0, IntV(1)), InsOp1("StdoutWrite", 0),
       InsJumpUnconditional("L")>>,
     <<InsJumpUnconditional("L"), InsMove(0, IntV(1)), InsDefineLabel("L"),
       InsMove(1, IntV(1)), InsMove(2, IntV(2))>>,
     <<InsJumpUnconditional("M")>>,
     <<InsOp1("BufferedStdinRead", 0), InsOp1("StdoutWrite", 0)>>,
     <<>>}

Programs ==
    BinaryPrograms \cup RegisterPrograms \cup UnaryPrograms \cup CallPrograms
    \cup ChainPrograms \cup DeepPrograms \cup TablePrograms \cup ScenarioPrograms

----------------------------------------------------------------------------
(* The texts the model assembles, each the code points of the source     *)
(* quoted above it (\n and \r there stand for a line feed and a carriage  *)
(* return, \\ for one backslash).                                        *)

\* move r0 int 1
TextMoveInt ==
    <<109, 111, 118, 101, 32, 114, 48, 32, 105, 110, 116, 32, 49>>

\* move r0 int -1
TextMoveIntNegative ==
    <<109, 111, 118, 101, 32, 114, 48, 32, 105, 110, 116, 32, 45, 49>>

\* move r0 int 2147483647
TextMoveIntMax ==
    <<109, 111, 118, 101, 32, 114, 48, 32, 105, 110, 116, 32, 50, 49, 52, 55,
      52, 56, 51, 54, 52, 55>>

\* move r0 int 2147483648
TextMoveIntTooLarge ==
    <<109, 111, 118, 101, 32, 114, 48, 32, 105, 110, 116, 32, 50, 49, 52, 55,
      52, 56, 51, 54, 52, 56>>

\* move r0 float 2.0
TextMoveFloat ==
    <<109, 111, 118, 101, 32, 114, 48, 32, 102, 108, 111, 97, 116, 32, 50,
      46, 48>>

\* move r0 string "a"
TextMoveString ==
    <<109, 111, 118, 101, 32, 114, 48, 32, 115, 116, 114, 105, 110, 103, 32,
      34, 97, 34>>

\* move r0 bool true
TextMoveTrue ==
    <<109, 111, 118, 101, 32, 114, 48, 32, 98, 111, 111, 108, 32, 116, 114,
      117, 101>>

\* move r0 bool false
TextMoveFalse ==
    <<109, 111, 118, 101, 32, 114, 48, 32, 98, 111, 111, 108, 32, 102, 97,
      108, 115, 101>>

\* move r0 None
TextMoveNone ==
    <<109, 111, 118, 101, 32, 114, 48, 32, 78, 111, 110, 101>>

\* move r0 class
TextMoveClass ==
    <<109, 111, 118, 101, 32, 114, 48, 32, 99, 108, 97, 115, 115>>

\* definefnlabel f 0 None
TextFnNone ==
    <<100, 101, 102, 105, 110, 101, 102, 110, 108, 97, 98, 101, 108, 32, 102,
      32, 48, 32, 78, 111, 110, 101>>

\* definefnlabel f 0 int
TextFnInt ==
    <<100, 101, 102, 105, 110, 101, 102, 110, 108, 97, 98, 101, 108, 32, 102,
      32, 48, 32, 105, 110, 116>>

\* definefnlabel f 0 float
TextFnFloat ==
    <<100, 101, 102, 105, 110, 101, 102, 110, 108, 97, 98, 101, 108, 32, 102,
      32, 48, 32, 102, 108, 111, 97, 116>>

\* definefnlabel f 0 string
TextFnString ==
    <<100, 101, 102, 105, 110, 101, 102, 110, 108, 97, 98, 101, 108, 32, 102,
      32, 48, 32, 115, 116, 114, 105, 110, 103>>

\* definefnlabel f 0 boolean
TextFnBoolean ==
    <<100, 101, 102, 105, 110, 101, 102, 110, 108, 97, 98, 101, 108, 32, 102,
      32, 48, 32, 98, 111, 111, 108, 101, 97, 110>>

\* definefnlabel f 0 function
TextFnFunction ==
    <<100, 101, 102, 105, 110, 101, 102, 110, 108, 97, 98, 101, 108, 32, 102,
      32, 48, 32, 102, 117, 110, 99, 116, 105, 111, 110>>

\* move r0 string "\\u{0041}"
TextEscapeBraced ==
    <<109, 111, 118, 101, 32, 114, 48, 32, 115, 116, 114, 105, 110, 103, 32,
      34, 92, 117, 123, 48, 48, 52, 49, 125, 34>>

\* move r0 string "\\u0041"
TextEscapePlain ==
    <<109, 111, 118, 101, 32, 114, 48, 32, 115, 116, 114, 105, 110, 103, 32,
      34, 92, 117, 48, 48, 52, 49, 34>>

\* move r0 string "\\u+041"
TextEscapeSigned ==
    <<109, 111, 118, 101, 32, 114, 48, 32, 115, 116, 114, 105, 110, 103, 32,
      34, 92, 117, 43, 48, 52, 49, 34>>

\* move r0 string "\\u00e9"
TextEscapeTwoBytes ==
    <<109, 111, 118, 101, 32, 114, 48, 32, 115, 116, 114, 105, 110, 103, 32,
      34, 92, 117, 48, 48, 101, 57, 34>>

\* move r0 string "\\ud800"
TextEscapeSurrogate ==
    <<109, 111, 118, 101, 32, 114, 48, 32, 115, 116, 114, 105, 110, 103, 32,
      34, 92, 117, 100, 56, 48, 48, 34>>

\* move r0 string "\\u41"
TextEscapeShort ==
    <<109, 111, 118, 101, 32, 114, 48, 32, 115, 116, 114, 105, 110, 103, 32,
      34, 92, 117, 52, 49, 34>>

\* move r0 string "\\n\\r\\t\\\\\\0\\""
TextEscapes ==
    <<109, 111, 118, 101, 32, 114, 48, 32, 115, 116, 114, 105, 110, 103, 32,
      34, 92, 110, 92, 114, 92, 116, 92, 92, 92, 48, 92, 34, 34>>

\* move r0 string "\\q"
TextEscapeUnknown ==
    <<109, 111, 118, 101, 32, 114, 48, 32, 115, 116, 114, 105, 110, 103, 32,
      34, 92, 113, 34>>

\* move r0 string "a\nb\r\nc\rd"
TextStringLines ==
    <<109, 111, 118, 101, 32, 114, 48, 32, 115, 116, 114, 105, 110, 103, 32,
      34, 97, 10, 98, 13, 10, 99, 13, 100, 34>>

\* move r0 string "a
TextStringUnclosed ==
    <<109, 111, 118, 101, 32, 114, 48, 32, 115, 116, 114, 105, 110, 103, 32,
      34, 97>>

\* move r0 string "a\\
TextStringCutInEscape ==
    <<109, 111, 118, 101, 32, 114, 48, 32, 115, 116, 114, 105, 110, 103, 32,
      34, 97, 92>>

\* move r15 int 1\nstdoutwrite r15
TextRegisterLast ==
    <<109, 111, 118, 101, 32, 114, 49, 53, 32, 105, 110, 116, 32, 49, 10,
      115, 116, 100, 111, 117, 116, 119, 114, 105, 116, 101, 32, 114, 49, 53>>

\* move r16 int 1\nstdoutwrite r16
TextRegisterSixteen ==
    <<109, 111, 118, 101, 32, 114, 49, 54, 32, 105, 110, 116, 32, 49, 10,
      115, 116, 100, 111, 117, 116, 119, 114, 105, 116, 101, 32, 114, 49, 54>>

\* move 16 int 1
TextRegisterAsNumber ==
    <<109, 111, 118, 101, 32, 49, 54, 32, 105, 110, 116, 32, 49>>

\* definelabel L\nmove r0 int 1\nstdoutwrite r0\njumpunc L
TextLoop ==
    <<100, 101, 102, 105, 110, 101, 108, 97, 98, 101, 108, 32, 76, 10, 109,
      111, 118, 101, 32, 114, 48, 32, 105, 110, 116, 32, 49, 10, 115, 116,
      100, 111, 117, 116, 119, 114, 105, 116, 101, 32, 114, 48, 10, 106, 117,
      109, 112, 117, 110, 99, 32, 76>>

\* -- a comment\nmove r0 int 1 -- one\nplch stdoutflush
TextComment ==
    <<45, 45, 32, 97, 32, 99, 111, 109, 109, 101, 110, 116, 10, 109, 111,
      118, 101, 32, 114, 48, 32, 105, 110, 116, 32, 49, 32, 45, 45, 32, 111,
      110, 101, 10, 112, 108, 99, 104, 32, 115, 116, 100, 111, 117, 116, 102,
      108, 117, 115, 104>>

\* move r0 int 1 - 1
TextDash ==
    <<109, 111, 118, 101, 32, 114, 48, 32, 105, 110, 116, 32, 49, 32, 45, 32,
      49>>

\* add r0, r1, r2
TextComma ==
    <<97, 100, 100, 32, 114, 48, 44, 32, 114, 49, 44, 32, 114, 50>>

\* move r0 int 1;
TextUnrecognized ==
    <<109, 111, 118, 101, 32, 114, 48, 32, 105, 110, 116, 32, 49, 59>>

\* moveargument 1"x" r0
TextNumberEatsQuote ==
    <<109, 111, 118, 101, 97, 114, 103, 117, 109, 101, 110, 116, 32, 49, 34,
      120, 34, 32, 114, 48>>

\* definefnlabel f 2 x int\nmoveargument "x" r1\nsetvariable r1 v\nmovfromvariable v r2\nreturn\nendfunction\nmove r0 int 1\nmoveasargument r0\ncall f\nplch\nmovebetween r1 r3
TextCallKeywords ==
    <<100, 101, 102, 105, 110, 101, 102, 110, 108, 97, 98, 101, 108, 32, 102,
      32, 50, 32, 120, 32, 105, 110, 116, 10, 109, 111, 118, 101, 97, 114,
      103, 117, 109, 101, 110, 116, 32, 34, 120, 34, 32, 114, 49, 10, 115,
      101, 116, 118, 97, 114, 105, 97, 98, 108, 101, 32, 114, 49, 32, 118,
      10, 109, 111, 118, 102, 114, 111, 109, 118, 97, 114, 105, 97, 98, 108,
      101, 32, 118, 32, 114, 50, 10, 114, 101, 116, 117, 114, 110, 10, 101,
      110, 100, 102, 117, 110, 99, 116, 105, 111, 110, 10, 109, 111, 118,
      101, 32, 114, 48, 32, 105, 110, 116, 32, 49, 10, 109, 111, 118, 101,
      97, 115, 97, 114, 103, 117, 109, 101, 110, 116, 32, 114, 48, 10, 99,
      97, 108, 108, 32, 102, 10, 112, 108, 99, 104, 10, 109, 111, 118, 101,
      98, 101, 116, 119, 101, 101, 110, 32, 114, 49, 32, 114, 51>>

\* move r1 int 2\nmove r2 int 1\nadd r1 r2 r4\nsub r1 r2 r4\nmul r1 r2 r4\ndiv r1 r2 r4\nrem r1 r2 r4\npow r1 r2 r15
TextArithmeticKeywords ==
    <<109, 111, 118, 101, 32, 114, 49, 32, 105, 110, 116, 32, 50, 10, 109,
      111, 118, 101, 32, 114, 50, 32, 105, 110, 116, 32, 49, 10, 97, 100,
      100, 32, 114, 49, 32, 114, 50, 32, 114, 52, 10, 115, 117, 98, 32, 114,
      49, 32, 114, 50, 32, 114, 52, 10, 109, 117, 108, 32, 114, 49, 32, 114,
      50, 32, 114, 52, 10, 100, 105, 118, 32, 114, 49, 32, 114, 50, 32, 114,
      52, 10, 114, 101, 109, 32, 114, 49, 32, 114, 50, 32, 114, 52, 10, 112,
      111, 119, 32, 114, 49, 32, 114, 50, 32, 114, 49, 53>>

\* move r1 int 2\nmove r2 int 1\nlt r1 r2 r5\nle r1 r2 r5\ngt r1 r2 r5\nge r1 r2 r5\neq r1 r2 r5\nne r1 r2 r6
TextOrderKeywords ==
    <<109, 111, 118, 101, 32, 114, 49, 32, 105, 110, 116, 32, 50, 10, 109,
      111, 118, 101, 32, 114, 50, 32, 105, 110, 116, 32, 49, 10, 108, 116,
      32, 114, 49, 32, 114, 50, 32, 114, 53, 10, 108, 101, 32, 114, 49, 32,
      114, 50, 32, 114, 53, 10, 103, 116, 32, 114, 49, 32, 114, 50, 32, 114,
      53, 10, 103, 101, 32, 114, 49, 32, 114, 50, 32, 114, 53, 10, 101, 113,
      32, 114, 49, 32, 114, 50, 32, 114, 53, 10, 110, 101, 32, 114, 49, 32,
      114, 50, 32, 114, 54>>

\* move r1 None\neq r1 r1 r5\nne r1 r1 r6\nor r5 r6 r7\nxor r5 r6 r7\nand r5 r6 r7\nnot r7 r8
TextLogicKeywords ==
    <<109, 111, 118, 101, 32, 114, 49, 32, 78, 111, 110, 101, 10, 101, 113,
      32, 114, 49, 32, 114, 49, 32, 114, 53, 10, 110, 101, 32, 114, 49, 32,
      114, 49, 32, 114, 54, 10, 111, 114, 32, 114, 53, 32, 114, 54, 32, 114,
      55, 10, 120, 111, 114, 32, 114, 53, 32, 114, 54, 32, 114, 55, 10, 97,
      110, 100, 32, 114, 53, 32, 114, 54, 32, 114, 55, 10, 110, 111, 116, 32,
      114, 55, 32, 114, 56>>

\* bufferedstdinread r9\nstdoutwrite r9\nstdoutwritedebugged r9\nstdoutflush\nstderrwrite r9\nstderrwritedebugged r9\nstderrflush
TextOutputKeywords ==
    <<98, 117, 102, 102, 101, 114, 101, 100, 115, 116, 100, 105, 110, 114,
      101, 97, 100, 32, 114, 57, 10, 115, 116, 100, 111, 117, 116, 119, 114,
      105, 116, 101, 32, 114, 57, 10, 115, 116, 100, 111, 117, 116, 119, 114,
      105, 116, 101, 100, 101, 98, 117, 103, 103, 101, 100, 32, 114, 57, 10,
      115, 116, 100, 111, 117, 116, 102, 108, 117, 115, 104, 10, 115, 116,
      100, 101, 114, 114, 119, 114, 105, 116, 101, 32, 114, 57, 10, 115, 116,
      100, 101, 114, 114, 119, 114, 105, 116, 101, 100, 101, 98, 117, 103,
      103, 101, 100, 32, 114, 57, 10, 115, 116, 100, 101, 114, 114, 102, 108,
      117, 115, 104>>

\* move r8 None\neq r8 r8 r8\njumpc r8 M\ndefinelabel L\nmove r15 string "MathError"\nthrowfrom r15 r15\ndefinelabel M\njumpunc L
TextJumpKeywords ==
    <<109, 111, 118, 101, 32, 114, 56, 32, 78, 111, 110, 101, 10, 101, 113,
      32, 114, 56, 32, 114, 56, 32, 114, 56, 10, 106, 117, 109, 112, 99, 32,
      114, 56, 32, 77, 10, 100, 101, 102, 105, 110, 101, 108, 97, 98, 101,
      108, 32, 76, 10, 109, 111, 118, 101, 32, 114, 49, 53, 32, 115, 116,
      114, 105, 110, 103, 32, 34, 77, 97, 116, 104, 69, 114, 114, 111, 114,
      34, 10, 116, 104, 114, 111, 119, 102, 114, 111, 109, 32, 114, 49, 53,
      32, 114, 49, 53, 10, 100, 101, 102, 105, 110, 101, 108, 97, 98, 101,
      108, 32, 77, 10, 106, 117, 109, 112, 117, 110, 99, 32, 76>>

\* definefnlabel f 0 None\nreturn\nendfunction\nmove r0 int 1\nmoveasargument r0\nmoveasargument r0\ncall f
TextCount0 ==
    <<100, 101, 102, 105, 110, 101, 102, 110, 108, 97, 98, 101, 108, 32, 102,
      32, 48, 32, 78, 111, 110, 101, 10, 114, 101, 116, 117, 114, 110, 10,
      101, 110, 100, 102, 117, 110, 99, 116, 105, 111, 110, 10, 109, 111,
      118, 101, 32, 114, 48, 32, 105, 110, 116, 32, 49, 10, 109, 111, 118,
      101, 97, 115, 97, 114, 103, 117, 109, 101, 110, 116, 32, 114, 48, 10,
      109, 111, 118, 101, 97, 115, 97, 114, 103, 117, 109, 101, 110, 116, 32,
      114, 48, 10, 99, 97, 108, 108, 32, 102>>

\* definefnlabel f 1 None\nreturn\nendfunction\nmove r0 int 1\nmoveasargument r0\nmoveasargument r0\ncall f
TextCount1 ==
    <<100, 101, 102, 105, 110, 101, 102, 110, 108, 97, 98, 101, 108, 32, 102,
      32, 49, 32, 78, 111, 110, 101, 10, 114, 101, 116, 117, 114, 110, 10,
      101, 110, 100, 102, 117, 110, 99, 116, 105, 111, 110, 10, 109, 111,
      118, 101, 32, 114, 48, 32, 105, 110, 116, 32, 49, 10, 109, 111, 118,
      101, 97, 115, 97, 114, 103, 117, 109, 101, 110, 116, 32, 114, 48, 10,
      109, 111, 118, 101, 97, 115, 97, 114, 103, 117, 109, 101, 110, 116, 32,
      114, 48, 10, 99, 97, 108, 108, 32, 102>>

\* definefnlabel f 2 x None\nreturn\nendfunction\nmove r0 int 1\nmoveasargument r0\nmoveasargument r0\ncall f
TextCount2 ==
    <<100, 101, 102, 105, 110, 101, 102, 110, 108, 97, 98, 101, 108, 32, 102,
      32, 50, 32, 120, 32, 78, 111, 110, 101, 10, 114, 101, 116, 117, 114,
      110, 10, 101, 110, 100, 102, 117, 110, 99, 116, 105, 111, 110, 10, 109,
      111, 118, 101, 32, 114, 48, 32, 105, 110, 116, 32, 49, 10, 109, 111,
      118, 101, 97, 115, 97, 114, 103, 117, 109, 101, 110, 116, 32, 114, 48,
      10, 109, 111, 118, 101, 97, 115, 97, 114, 103, 117, 109, 101, 110, 116,
      32, 114, 48, 10, 99, 97, 108, 108, 32, 102>>

\* definefnlabel f 3 x y None\nreturn\nendfunction\nmove r0 int 1\nmoveasargument r0\nmoveasargument r0\ncall f
TextCount3 ==
    <<100, 101, 102, 105, 110, 101, 102, 110, 108, 97, 98, 101, 108, 32, 102,
      32, 51, 32, 120, 32, 121, 32, 78, 111, 110, 101, 10, 114, 101, 116,
      117, 114, 110, 10, 101, 110, 100, 102, 117, 110, 99, 116, 105, 111,
      110, 10, 109, 111, 118, 101, 32, 114, 48, 32, 105, 110, 116, 32, 49,
      10, 109, 111, 118, 101, 97, 115, 97, 114, 103, 117, 109, 101, 110, 116,
      32, 114, 48, 10, 109, 111, 118, 101, 97, 115, 97, 114, 103, 117, 109,
      101, 110, 116, 32, 114, 48, 10, 99, 97, 108, 108, 32, 102>>

\* definefnlabel f 2 x y None\nreturn\nendfunction\nmove r0 int 1\nmoveasargument r0\nmoveasargument r0\ncall f
TextCountAsNames ==
    <<100, 101, 102, 105, 110, 101, 102, 110, 108, 97, 98, 101, 108, 32, 102,
      32, 50, 32, 120, 32, 121, 32, 78, 111, 110, 101, 10, 114, 101, 116,
      117, 114, 110, 10, 101, 110, 100, 102, 117, 110, 99, 116, 105, 111,
      110, 10, 109, 111, 118, 101, 32, 114, 48, 32, 105, 110, 116, 32, 49,
      10, 109, 111, 118, 101, 97, 115, 97, 114, 103, 117, 109, 101, 110, 116,
      32, 114, 48, 10, 109, 111, 118, 101, 97, 115, 97, 114, 103, 117, 109,
      101, 110, 116, 32, 114, 48, 10, 99, 97, 108, 108, 32, 102>>

\* Words that begin with r: r alone and r before one to three of these chars
WordTails == UNION {[1..n -> {48, 49, 54, 57, 97, 95, 46}] : n \in 0..3}
WordTexts == {<<114>> \o tail : tail \in WordTails} \cup {<<120, 49>>, <<82, 49>>}

\* A number and what follows its last digit: "1 2", "1\n2", "1,2", "1--c"
NumberTexts ==
    {<<49, c, 50>> : c \in {32, 10, 44}} \cup {<<49, 45, 45, 99>>}

Texts ==
    WordTexts \cup NumberTexts
    \cup {TextMoveInt, TextMoveIntNegative, TextMoveIntMax,
          TextMoveIntTooLarge, TextMoveFloat, TextMoveString, TextMoveTrue,
          TextMoveFalse, TextMoveNone, TextMoveClass, TextFnNone,
          TextFnInt, TextFnFloat, TextFnString, TextFnBoolean,
          TextFnFunction, TextEscapeBraced, TextEscapePlain,
          TextEscapeSigned, TextEscapeTwoBytes, TextEscapeSurrogate,
          TextEscapeShort, TextEscapes, TextEscapeUnknown, TextStringLines,
          TextStringUnclosed, TextStringCutInEscape, TextRegisterLast,
          TextRegisterSixteen, TextRegisterAsNumber, TextLoop, TextComment,
          TextDash, TextComma, TextUnrecognized, TextNumberEatsQuote,
          TextCallKeywords, TextArithmeticKeywords, TextOrderKeywords,
          TextLogicKeywords, TextOutputKeywords, TextJumpKeywords,
          TextCount0, TextCount1, TextCount2, TextCount3, TextCountAsNames}

----------------------------------------------------------------------------
(* The specification *)

Host(option, open_ok, read_ok, decode_ok, image, diagnostic, overflow_checks, text) ==
    [option |-> option, open_ok |-> open_ok, read_ok |-> read_ok,
     decode_ok |-> decode_ok, image |-> image, diagnostic |-> diagnostic,
     overflow_checks |-> overflow_checks, text |-> text]

Hosts ==
    {Host("run", TRUE, TRUE, TRUE, p, None, c, <<>>) : p \in Programs, c \in BOOLEAN}
    \cup {Host("run", o, r, d, <<>>, None, TRUE, <<>>) :
            o \in BOOLEAN, r \in BOOLEAN, d \in BOOLEAN}
    \cup {Host("build", TRUE, TRUE, TRUE, <<>>, None, TRUE, text) : text \in Texts}
    \cup {Host("build", TRUE, TRUE, TRUE, <<>>, Some(stage), TRUE, TextMoveInt) :
            stage \in BuildStages}

\* main has read its arguments; the runtime's fields are those of
\* MirageRuntime::new
Init ==
    /\ host \in Hosts
    /\ phase = "main"
    /\ exit_code = None
    /\ instructions = <<>>
    /\ labels = [n \in {} |-> 0]
    /\ function_addr_table = [n \in {} |-> 0]
    /\ registers = RegistersNew
    /\ frames = <<>>
    /\ program_counter = -1
    /\ argument_stack = <<>>
    /\ stdout_last = None
    /\ stderr_last = None
    /\ result = NoResult
    /\ dispatched = -1
    /\ main_tokens = AsmOk(<<>>)
    /\ main_parsed = AsmOk(<<>>)

Next ==
    \/ MainBuild \/ MainTokenize \/ MainParse \/ MainWrite \/ RunBuilt
    \/ MainRun \/ Setup \/ RunBegin \/ MainRunReturned \/ MainPanicked
    \/ Move \/ MoveBetween \/ MoveArgument \/ MoveAsArgument
    \/ Add \/ Sub \/ Mul \/ Div \/ Rem \/ Pow
    \/ Or \/ Xor \/ And \/ Not
    \/ Lt \/ Le \/ Gt \/ Ge \/ Eq \/ Ne
    \/ Return \/ SetVariable \/ MovFromVariable \/ ThrowFrom
    \/ DefineLabel \/ JumpUnconditional \/ JumpConditional
    \/ Call \/ DefineFnLabel \/ EndFunction
    \/ StdoutWrite \/ StdoutWriteDebugged \/ StdoutFlush
    \/ StderrWrite \/ StderrWriteDebugged \/ StderrFlush
    \/ BufferedStdinRead
    \/ Exhausted

Spec == Init /\ [][Next]_vars

\* The loop of run is one thread that nothing suspends for ever: while a
\* turn can be taken, one is taken. Asked only of the turns that dispatch a
\* label, a move, a write to stdout and a jump.
LoopTurns == DefineLabel \/ Move \/ StdoutWrite \/ JumpUnconditional

FairSpec == Spec /\ WF_vars(LoopTurns)

\* The same asked of the turns that dispatch a Call and a DefineFnLabel
CallTurns == Call \/ DefineFnLabel

FairCallSpec == Spec /\ WF_vars(CallTurns)

----------------------------------------------------------------------------
(* unwind_stack on its own: a public method of MirageRuntime, applied to    *)
(* any call stack and any error. run never pushes a frame that handles      *)
(* errors, so these stacks are drawn here.                                  *)

\* The stacks drawn hold up to MaxRuns runs of equal frames
MaxRuns == 3

HandlerFrames ==
    {StackFrame(n, EmptyMap, None, h[1], h[2]) :
        n \in {"f", "g"}, h \in {<<FALSE, 0>>, <<TRUE, 3>>, <<TRUE, 5>>}}

Stacks ==
    {fs \in UNION {[1..n -> {FrameRun(f, c) : f \in HandlerFrames, c \in 1..2}] :
                      n \in 0..MaxRuns} :
        \A i \in 1..(Len(fs) - 1) : fs[i].frame # fs[i + 1].frame}

\* A runtime whose stack is any of Stacks, and in result the error that
\* throw hands to unwind_stack, its backtrace taken of that stack
UnwindInit ==
    /\ host = Host("run", TRUE, TRUE, TRUE, <<>>, None, FALSE, <<>>)
    /\ phase = "unwinding"
    /\ exit_code = None
    /\ instructions = <<>>
    /\ labels = [n \in {} |-> 0]
    /\ function_addr_table = [n \in {} |-> 0]
    /\ registers = RegistersNew
    /\ frames \in Stacks
    /\ program_counter = -1
    /\ argument_stack = <<>>
    /\ stdout_last = None
    /\ stderr_last = None
    /\ \E name \in {NameMathError, NameIOError} :
          result = Err(MiError(name, Msg("{}", <<>>), frames))
    /\ dispatched = -1
    /\ main_tokens = AsmOk(<<>>)
    /\ main_parsed = AsmOk(<<>>)

\* `self.program_counter = self.unwind_stack(error)?`
UnwindStack ==
    /\ phase = "unwinding"
    /\ LET u == unwind_stack(frames)
       IN  /\ frames' = u.frames
           /\ IF u.addr # None
              THEN program_counter' = u.addr[1] /\ phase' = "handled" /\ result' = NoResult
              ELSE program_counter' = program_counter /\ phase' = "failed" /\ result' = result
    /\ UNCHANGED <<instructions, labels, function_addr_table, registers, argument_stack,
                   stdout_last, stderr_last, dispatched, host, exit_code, main_tokens,
                   main_parsed>>

UnwindNext == UnwindStack

UnwindSpec == UnwindInit /\ [][UnwindNext]_vars

----------------------------------------------------------------------------
(* Vocabulary of the properties *)

\* run has returned the error called name
FailedWith(name) ==
    phase = "failed" /\ result.kind = "err" /\ result.error[1].name = name

\* The loop is about to dispatch an instruction with opcode in ops
About(ops) == phase = "running" /\ HasCurrent /\ Current.op \in ops

\* The instruction the loop dispatched last
Last == instructions[dispatched + 1]

IsSet(reg) == RegistersGet(registers, reg) # None
VariantOf(reg) == RegistersGet(registers, reg)[1].variant
BytesOf(reg) == RegistersGet(registers, reg)[1].bytes

----------------------------------------------------------------------------
(* Call and Return *)

\* The last instruction dispatched is a Return that resumed in a caller:
\* program_counter holds the return address it popped
ResumedByReturn ==
    phase = "running" /\ dispatched >= 0 /\ Last.op = "Return" /\ HasCurrent

\* C1: after a Return that resumes, the popped return address is c + 1 for a
\* Call at index c, and the instruction at index c + 1 is the one dispatched
\* next.
C1_ReturnResumesAfterCall ==
    [][ResumedByReturn =>
          /\ program_counter >= 1
          /\ instructions[program_counter].op = "Call"
          /\ dispatched' = program_counter]_vars

\* A Call that will bind all the parameters of its function and push a frame
BindingCall ==
    /\ About({"Call"})
    /\ Current.name \in DOMAIN function_addr_table
    /\ Len(argument_stack) >= Len(function_addr_table[Current.name].args)
    /\ StackLen(frames) + 1 < 4000

\* C2: a Call with at least n values on the argument stack binds them in
\* parameter order: the i-th declared parameter takes the i-th pushed of the
\* n topmost values, so the last pushed goes to the last declared.
C2_ArgumentsInParameterOrder ==
    [][BindingCall =>
          LET names == function_addr_table[Current.name].args
              n == Len(names)
              k == Len(argument_stack)
          IN  /\ StackLen(frames') = StackLen(frames) + 1
              /\ \A i \in 1..n :
                   last_frame(frames').args[names[i]] = argument_stack[k - n + i]]_vars

----------------------------------------------------------------------------
(* Exit codes *)

\* What main was asked to do went through: the image ran to an Ok result,
\* or the build reported no diagnostic
Succeeded ==
    \/ host.option = "run" /\ host.open_ok /\ host.read_ok /\ host.decode_ok
         /\ result.kind = "ok"
    \/ host.option = "build" /\ host.diagnostic = None
         /\ main_tokens.ok /\ main_parsed.ok

\* C3: the exit code is 0 only on success: a run that ends with an error, an
\* image that does not decode and a build that reports a diagnostic all give
\* a non-zero exit code.
C3_ZeroOnlyOnSuccess ==
    phase = "exited" /\ exit_code = Some(0) => Succeeded

----------------------------------------------------------------------------
(* Operand types *)

ArithmeticOps == {"Add", "Sub", "Mul", "Div", "Rem", "Pow"}

\* Both operands of an arithmetic instruction are set, and one of them is
\* neither Int nor Float or the two differ in variant
IllTypedArithmetic ==
    /\ About(ArithmeticOps)
    /\ IsSet(Current.a) /\ IsSet(Current.b)
    /\ \/ VariantOf(Current.a) \notin {"Int", "Float"}
       \/ VariantOf(Current.b) \notin {"Int", "Float"}
       \/ VariantOf(Current.a) # VariantOf(Current.b)

\* C4: Add, Sub, Mul, Div, Rem and Pow on two set operands of which one is
\* not numeric, or which differ in variant, end the run with InvalidType and
\* leave the destination register (every register) as it was.
C4_ArithmeticInvalidType ==
    [][IllTypedArithmetic =>
          /\ FailedWith(NameInvalidType)'
          /\ registers' = registers]_vars

\* An Int met a Float in an arithmetic instruction, and the run has ended
\* with InvalidType
C4_Witness ==
    /\ FailedWith(NameInvalidType)
    /\ Last.op \in ArithmeticOps
    /\ IsSet(Last.a) /\ IsSet(Last.b)
    /\ VariantOf(Last.a) = "Int" /\ VariantOf(Last.b) = "Float"

\* The operand registers a logic instruction reads
LogicSources(ins) == IF ins.op = "Not" THEN {ins.a} ELSE {ins.a, ins.b}

\* Every operand of a logic instruction is set, and one is not a Bool
IllTypedLogic ==
    /\ About({"Or", "Xor", "And", "Not"})
    /\ \A r \in LogicSources(Current) : IsSet(r)
    /\ \E r \in LogicSources(Current) : VariantOf(r) # "Bool"

\* C5: Or, Xor, And and Not throw InvalidType and write no result whenever an
\* operand, the first or the second, is not a Bool.
C5_LogicInvalidType ==
    [][IllTypedLogic =>
          /\ FailedWith(NameInvalidType)'
          /\ registers' = registers]_vars

----------------------------------------------------------------------------
(* JumpConditional *)

\* C6: JumpConditional on a set register of any variant and payload jumps to
\* the label when the first payload byte is 1 (UnsetLabel when there is no
\* such label); otherwise it falls through to the next instruction, with no
\* error and no abnormal termination.
C6_JumpConditionalTotal ==
    [][About({"JumpConditional"}) /\ IsSet(Current.a) =>
          IF BytesOf(Current.a) # <<>> /\ BytesOf(Current.a)[1] = 1
          THEN IF Current.name \in DOMAIN labels
               THEN phase' = "running" /\ program_counter' = labels[Current.name] + 1
               ELSE FailedWith(NameUnsetLabel)'
          ELSE phase' = "running" /\ program_counter' = Idx]_vars

----------------------------------------------------------------------------
(* Integer arithmetic *)

IsInt(reg) == IsSet(reg) /\ VariantOf(reg) = "Int" /\ IsI32Payload(BytesOf(reg))
IntOf(reg) == I32FromLeBytes(BytesOf(reg))

\* C7: Div and Rem on two Int operands with divisor 0 end the run with the
\* error MathError; the interpreter does not terminate abnormally.
C7_DivisionByZeroIsMathError ==
    [][About({"Div", "Rem"}) /\ IsInt(Current.a) /\ IsInt(Current.b)
          /\ IntOf(Current.b) = 0
       => FailedWith(NameMathError)']_vars

\* C8: Pow on an Int base and an Int exponent e ends the run with MathError,
\* the registers as they were, when e < 0; when e >= 0 it throws no
\* MathError.
C8_PowExponent ==
    [][About({"Pow"}) /\ IsInt(Current.a) /\ IsInt(Current.b) =>
          IF IntOf(Current.b) < 0
          THEN FailedWith(NameMathError)' /\ registers' = registers
          ELSE ~FailedWith(NameMathError)']_vars

\* A Pow with a negative Int exponent has ended the run with MathError
C8_Witness ==
    /\ FailedWith(NameMathError)
    /\ Last.op = "Pow"
    /\ IsInt(Last.a) /\ IsInt(Last.b) /\ IntOf(Last.b) < 0

----------------------------------------------------------------------------
(* Register indices *)

\* Instructions that name registers and make no test of their operands'
\* types, with the registers they name: those read first, then the written
UntypedRegisterOps ==
    {"Move", "MoveBetween", "MoveAsArgument", "SetVariable", "ThrowFrom",
     "Eq", "Ne", "StdoutWrite", "StderrWrite", "BufferedStdinRead"}

RegisterOperands(ins) ==
    CASE ins.op \in {"Eq", "Ne"} -> {ins.a, ins.b, ins.c}
      [] ins.op \in {"MoveBetween", "ThrowFrom"} -> {ins.a, ins.b}
      [] OTHER -> {ins.a}

\* C9: an instruction that carries a register index of 16 or more, as an
\* operand it reads or as the destination it writes, makes the run fail with
\* InvalidRegister. Stated for the instructions that test no operand type,
\* with every operand that is in range set.
C9_OutOfRangeIsInvalidRegister ==
    [][/\ About(UntypedRegisterOps)
       /\ \E r \in RegisterOperands(Current) : r >= 16
       /\ \A r \in RegisterOperands(Current) : r < 16 => IsSet(r)
       => FailedWith(NameInvalidRegister)']_vars

----------------------------------------------------------------------------
(* The call stack *)

\* A Call of a defined function with its arguments at hand, on a stack of
\* 3999 frames
BindingCallAtLimit ==
    /\ About({"Call"})
    /\ Current.name \in DOMAIN function_addr_table
    /\ Len(argument_stack) >= Len(function_addr_table[Current.name].args)
    /\ StackLen(frames) = 3999

\* C10: the call stack always holds fewer than 4000 frames; a step that
\* pushes a frame starts from a stack with |frames| + 1 < 4000; a Call that
\* would push onto 3999 frames ends the run with StackOverflow.
C10_StackBelowLimit ==
    /\ [](StackLen(frames) < 4000)
    /\ [][/\ StackLen(frames') > StackLen(frames) => StackLen(frames) + 1 < 4000
          /\ BindingCallAtLimit => FailedWith(NameStackOverflow)']_vars

\* The chain of calls that never return has been stopped: the error carries
\* the 3999 frames the stack held
C10_Witness ==
    /\ FailedWith(NameStackOverflow)
    /\ Last.op = "Call"
    /\ StackLen(result.error[1].backtrace) = 3999

----------------------------------------------------------------------------
(* Invariants of the run *)

\* C11: while instructions are dispatched the call stack holds at least one
\* frame; it becomes empty only in a step that ends the run: a Return that
\* pops the outermost frame, or a throw that unwinds every frame.
C11_StackNeverEmptyWhileRunning ==
    /\ [](phase = "running" => StackLen(frames) >= 1)
    /\ [][frames # <<>> /\ frames' = <<>> =>
            \/ phase' = "returned" /\ instructions[dispatched' + 1].op = "Return"
            \/ phase' = "failed"]_vars

\* A Return has popped the outermost frame and ended the run
C11_Witness ==
    phase = "returned" /\ frames = <<>> /\ Last.op = "Return"

\* C12: every dispatch is of the instruction at the incremented program
\* counter, an index in 0..|instructions|-1; when the incremented counter is
\* outside that range the loop ends normally, dispatching nothing.
C12_DispatchInRange ==
    [][phase = "running" =>
          IF 0 <= program_counter + 1 /\ program_counter + 1 < Len(instructions)
          THEN dispatched' = program_counter + 1
          ELSE /\ phase' = "exhausted"
               /\ result'.kind = "ok"
               /\ dispatched' = dispatched
               /\ registers' = registers /\ frames' = frames]_vars

\* The counter has run past the last instruction of a program that
\* dispatched some, and the loop has ended
C12_Witness ==
    /\ phase = "exhausted"
    /\ dispatched >= 0
    /\ program_counter = Len(instructions)

\* The payload of a value has the size its variant asks for: 4 bytes for an
\* Int, 8 for a Float, one byte 0 or 1 for a Bool, none for None, and for a
\* String an 8-byte little-endian length n followed by n bytes of UTF-8
WellSized(value) ==
    CASE value.variant = "Int" -> Len(value.bytes) = 4
      [] value.variant = "Float" -> Len(value.bytes) = 8
      [] value.variant = "Bool" -> value.bytes \in {<<0>>, <<1>>}
      [] value.variant = "None" -> value.bytes = <<>>
      [] value.variant = "String" ->
            /\ Len(value.bytes) >= 8
            /\ value.bytes[1] = Len(value.bytes) - 8
            /\ \A i \in 2..8 : value.bytes[i] = 0
            /\ IsUtf8(SubSeq(value.bytes, 9, Len(value.bytes)))
      [] OTHER -> FALSE

\* Every literal of the program is encoded as the parser encodes it
CanonicalProgram ==
    \A i \in 1..Len(instructions) :
        instructions[i].op = "Move" => WellSized(instructions[i].value)

\* C13: in a program whose Move literals are canonically encoded, every
\* register is unset or holds a value whose payload has the size of its
\* variant.
C13_RegistersWellSized ==
    CanonicalProgram =>
        \A r \in 0..15 : registers[r] = None \/ WellSized(registers[r][1])

\* A comparison has stored its Bool, and a line read from stdin its String
C13_Witness ==
    /\ CanonicalProgram
    /\ phase = "running" /\ dispatched >= 0
    /\ \/ Last.op = "Lt" /\ IsSet(Last.c) /\ VariantOf(Last.c) = "Bool"
       \/ Last.op = "BufferedStdinRead" /\ IsSet(Last.a) /\ Len(BytesOf(Last.a)) = 11

\* run has returned an error made by throw: its backtrace shows the frames
\* of the moment (an error of Registers::set carries no backtrace)
Thrown == phase = "failed" /\ result.error[1].backtrace # <<>>

\* C14: no frame ever handles errors, so a throw of any name finds no
\* handler: it pops every frame and ends the run with the error it made, and
\* nothing is dispatched once the run has failed.
C14_ThrowEndsRun ==
    /\ [](\A i \in 1..Len(frames) : ~frames[i].frame.handles_error)
    /\ [][/\ phase = "running" /\ Thrown' =>
                /\ frames' = <<>>
                /\ result'.error[1].backtrace = frames
                /\ registers' = registers
          /\ phase = "failed" =>
                dispatched' = dispatched /\ phase' \in {"failed", "exited"}]_vars

\* A throw inside a called function has popped the callee's frame and the
\* Main frame, and main has printed the error
C14_Witness ==
    /\ phase = "exited"
    /\ result.kind = "err"
    /\ StackLen(result.error[1].backtrace) = 2
    /\ frames = <<>>

----------------------------------------------------------------------------
(* Results, registers and locals *)

\* C15: a run that ends without error, by a Return on the outermost frame or
\* by the counter running past the last instruction, yields the value held by
\* register 15 at that moment, or nothing when register 15 is unset.
C15_ResultIsRegister15 ==
    [][phase = "running" /\ phase' \in {"returned", "exhausted"} =>
          /\ result'.kind = "ok"
          /\ result'.value = registers[15]
          /\ registers' = registers]_vars

\* The outermost Return has yielded the value of register 15
C15_Witness ==
    /\ phase = "returned"
    /\ registers[15] # None
    /\ result.kind = "ok" /\ result.value = registers[15]


\* C16: Call and Return leave all 16 registers unchanged, so a register the
\* callee writes (MoveArgument into register 0) still holds the callee's value
\* when the caller resumes after the Return.
C16_CallReturnKeepRegisters ==
    [][About({"Call", "Return"}) => registers' = registers]_vars

\* Back in the caller after a Return, register 0 holds what only the callee's
\* MoveArgument can have written
C16_Witness ==
    /\ phase = "running" /\ dispatched >= 0 /\ Last.op = "Return"
    /\ StackLen(frames) = 1
    /\ IsSet(0)
    /\ \A i \in 1..Len(instructions) :
          instructions[i].op \in {"Move", "MovFromVariable"} => instructions[i].a # 0
    /\ \E i \in 1..Len(instructions) :
          instructions[i].op = "MoveArgument" /\ instructions[i].a = 0


\* The locals of the innermost frame, and the frames beneath it
TopLocals(fs) == last_frame(fs).local_variables
Beneath(fs) == pop_frame(fs)

\* C17: local variables are per-frame. SetVariable writes only the innermost
\* frame's locals, MovFromVariable reads only the innermost frame's locals (a
\* name that only an outer frame holds is an UndefinedVariable), a Call pushes
\* a frame with empty locals on top of the unchanged caller frames, a Return
\* uncovers them exactly as they were, and no other instruction changes a
\* frame while the run goes on.
C17_LocalsPerFrame ==
    /\ [][About({"SetVariable"}) /\ frames # <<>> /\ phase' = "running" =>
            /\ IsSet(Current.a)
            /\ StackLen(frames') = StackLen(frames)
            /\ Beneath(frames') = Beneath(frames)
            /\ DOMAIN TopLocals(frames') = DOMAIN TopLocals(frames) \cup {Current.name}
            /\ \A n \in DOMAIN TopLocals(frames') :
                  TopLocals(frames')[n] =
                      IF n = Current.name THEN registers[Current.a][1]
                      ELSE TopLocals(frames)[n]
            /\ [last_frame(frames') EXCEPT !.local_variables = <<>>]
                 = [last_frame(frames) EXCEPT !.local_variables = <<>>]]_vars
    /\ [][About({"MovFromVariable"}) /\ frames # <<>> =>
            IF Current.name \in DOMAIN TopLocals(frames)
            THEN Current.a < 16 =>
                    /\ phase' = "running" /\ frames' = frames
                    /\ registers'[Current.a] = <<TopLocals(frames)[Current.name]>>
            ELSE /\ phase' = "failed"
                 /\ result'.error[1].name = NameUndefinedVariable
                 /\ registers' = registers]_vars
    /\ [][About({"Call"}) /\ phase' = "running" =>
            /\ StackLen(frames') = StackLen(frames) + 1
            /\ DOMAIN TopLocals(frames') = {}
            /\ Beneath(frames') = frames]_vars
    /\ [][About({"Return"}) /\ phase' = "running" =>
            frames' = Beneath(frames)]_vars
    /\ [][phase = "running" /\ phase' = "running"
            /\ ~About({"SetVariable", "Call", "Return"}) => frames' = frames]_vars

\* A callee has read a name that only its caller's frame holds
C17_Witness ==
    /\ FailedWith(NameUndefinedVariable)
    /\ dispatched >= 0 /\ Last.op = "MovFromVariable"
    /\ StackLen(result.error[1].backtrace) = 2
    /\ Last.name \in DOMAIN TopLocals(Beneath(result.error[1].backtrace))
    /\ Last.name \notin DOMAIN TopLocals(result.error[1].backtrace)


----------------------------------------------------------------------------
(* Function bodies *)

\* The positions of the EndFunction instructions after position d
EndsAfter(d) ==
    {j \in (d + 1)..(Len(instructions) - 1) : instructions[j + 1].op = "EndFunction"}
FirstEndAfter(d) == CHOOSE j \in EndsAfter(d) : \A i \in EndsAfter(d) : j <= i

\* Position i lies in a function body: after a DefineFnLabel, with no
\* EndFunction in between
InBody(i) ==
    \E d \in 0..(i - 1) :
        /\ instructions[d + 1].op = "DefineFnLabel"
        /\ \A j \in (d + 1)..(i - 1) : instructions[j + 1].op # "EndFunction"

----------------------------------------------------------------------------
(* Equality and arithmetic results *)

\* The two values are the same bytes under the same variant
SameValue(x, y) == x.bytes = y.bytes /\ x.variant = y.variant

\* C19: on any two set registers, of any variants, Eq and Ne throw no type
\* error and, the destination being a register, write the one-byte Bool 1 or
\* 0: Eq writes 1 exactly when bytes and variant are both the same, and Ne
\* writes the other one.
C19_EqNeStructural ==
    [][About({"Eq", "Ne"}) /\ IsSet(Current.a) /\ IsSet(Current.b) =>
          LET same == SameValue(registers[Current.a][1], registers[Current.b][1])
              truth == IF Current.op = "Eq" THEN same ELSE ~same
          IN  /\ ~FailedWith(NameInvalidType)'
              /\ Current.c < 16 =>
                    /\ phase' = "running"
                    /\ registers'[Current.c] =
                          <<[bytes |-> <<IF truth THEN 1 ELSE 0>>, variant |-> "Bool"]>>]_vars

\* Eq has compared Int 1 with Float 1.0 and written false
C19_Witness ==
    /\ phase = "running" /\ dispatched >= 0 /\ Last.op = "Eq"
    /\ Last.c \notin {Last.a, Last.b}
    /\ IsSet(Last.a) /\ registers[Last.a][1] = [bytes |-> <<1, 0, 0, 0>>, variant |-> "Int"]
    /\ IsSet(Last.b) /\ VariantOf(Last.b) = "Float"
    /\ BytesOf(Last.b) = <<0, 0, 0, 0, 0, 0, 240, 63>>
    /\ IsSet(Last.c) /\ registers[Last.c][1] = [bytes |-> <<0>>, variant |-> "Bool"]


\* The exact sum, difference and product of two i32 lie in the i32 range
Magnitude(n) == IF n < 0 THEN -n ELSE n
FitsAdd(a, b) == IF b >= 0 THEN a <= MaxI32 - b ELSE a >= MinI32 - b
FitsSub(a, b) == IF b >= 0 THEN a >= MinI32 + b ELSE a <= MaxI32 + b
FitsMul(a, b) ==
    CASE a = 0 \/ b = 0 -> TRUE
      [] a = MinI32 -> b = 1
      [] b = MinI32 -> a = 1
      [] (a < 0) = (b < 0) -> Magnitude(a) <= MaxI32 \div Magnitude(b)
      [] a < 0 -> a >= (MinI32 + (b - 1)) \div b
      [] OTHER -> b >= (MinI32 + (a - 1)) \div a

\* What four little-endian bytes say as a two's complement integer
SignedOfLe(bs) ==
    bs[1] + 256 * bs[2] + 65536 * bs[3]
        + 16777216 * (bs[4] - (IF bs[4] >= 128 THEN 256 ELSE 0))

\* C20: Add, Sub and Mul on two Int registers whose exact result lies in
\* [-2^31, 2^31 - 1] store that result as a 4-byte little-endian Int in the
\* destination register, whatever the build; and an arithmetic instruction
\* that completes on two operands of one numeric variant stores a value of
\* that variant.
C20_ExactIntArithmetic ==
    /\ [][About({"Add", "Sub", "Mul"}) /\ IsInt(Current.a) /\ IsInt(Current.b)
            /\ Current.c < 16
            /\ (CASE Current.op = "Add" -> FitsAdd(IntOf(Current.a), IntOf(Current.b))
                  [] Current.op = "Sub" -> FitsSub(IntOf(Current.a), IntOf(Current.b))
                  [] OTHER -> FitsMul(IntOf(Current.a), IntOf(Current.b))) =>
            LET a == IntOf(Current.a)
                b == IntOf(Current.b)
                exact == CASE Current.op = "Add" -> a + b
                           [] Current.op = "Sub" -> a - b
                           [] OTHER -> a * b
                stored == registers'[Current.c]
            IN  /\ phase' = "running"
                /\ stored # <<>>
                /\ stored[1].variant = "Int"
                /\ Len(stored[1].bytes) = 4
                /\ \A i \in 1..4 : stored[1].bytes[i] \in 0..255
                /\ SignedOfLe(stored[1].bytes) = exact]_vars
    /\ [][About(ArithmeticOps) /\ IsSet(Current.a) /\ IsSet(Current.b)
            /\ VariantOf(Current.a) = VariantOf(Current.b)
            /\ VariantOf(Current.a) \in {"Int", "Float"}
            /\ Current.c < 16 /\ phase' = "running" =>
            /\ registers'[Current.c] # <<>>
            /\ registers'[Current.c][1].variant = VariantOf(Current.a)]_vars

\* Mul has multiplied Int -2 by Int 2 and stored Int -4
C20_Witness ==
    /\ phase = "running" /\ dispatched >= 0 /\ Last.op = "Mul"
    /\ Last.c \notin {Last.a, Last.b}
    /\ IsInt(Last.a) /\ IntOf(Last.a) = -2
    /\ IsInt(Last.b) /\ IntOf(Last.b) = 2
    /\ IsSet(Last.c)
    /\ registers[Last.c][1] = [bytes |-> <<252, 255, 255, 255>>, variant |-> "Int"]

-----------------------------------------------------------------------------
(* The assembler *)

\* main has built host.text with no diagnostic from the files around it, and
\* the build has ended or has parsed the text
BuildEnded ==
    /\ host.option = "build" /\ host.diagnostic = None
    /\ phase \in {"parsed", "exited"}

\* The build has ended at tokenize, at parse
TokenizeFailed == BuildEnded /\ ~main_tokens.ok
ParseFailed == BuildEnded /\ main_tokens.ok /\ ~main_parsed.ok

\* A text of one move into r0 for every value form, with the canonical
\* encoding of its literal
MoveValueForms ==
    {<<TextMoveInt, IntV(1)>>, <<TextMoveIntMax, IntV(MaxI32)>>,
     <<TextMoveFloat, FloatV(4)>>,
     <<TextMoveString, StringV(<<97>>)>>, <<TextMoveTrue, BoolV(TRUE)>>,
     <<TextMoveFalse, BoolV(FALSE)>>, <<TextMoveNone, NoneV>>}

\* C21: tokenizing and then parsing a move of a value into a register
\* succeeds for every value form (int, float, string, bool true, bool false,
\* None) and yields Move(reg, v) with v the canonical encoding of the literal.
C21_MoveOfEveryValueForm ==
    \A form \in MoveValueForms :
        BuildEnded /\ host.text = form[1]
        => /\ main_tokens.ok /\ main_parsed.ok
           /\ main_parsed.v = <<InsMove(0, form[2])>>

\* A text of one definefnlabel of f with count 0 for every type word, with
\* the return type the word declares
TypeWordForms ==
    {<<TextFnNone, "None">>, <<TextFnInt, "Int">>, <<TextFnFloat, "Float">>,
     <<TextFnString, "String">>, <<TextFnBoolean, "Bool">>}

\* C22: tokenizing and then parsing a definefnlabel succeeds for every type
\* word in None, int, float, string, boolean, and the DefineFnLabel it yields
\* declares the return type None, Int, Float, String, Bool respectively.
C22_EveryTypeWord ==
    \A form \in TypeWordForms :
        BuildEnded /\ host.text = form[1]
        => /\ main_tokens.ok /\ main_parsed.ok
           /\ main_parsed.v = <<InsDefineFnLabel("f", <<>>, form[2])>>

\* The text begins with definefnlabel, a name and a count
BeginsWithFn ==
    /\ main_tokens.ok /\ Len(main_tokens.v) >= 3
    /\ main_tokens.v[1] = TokKeyword("definefnlabel")
    /\ main_tokens.v[2].type = "Identifier"
    /\ main_tokens.v[3].type = "Int"

\* The count n written after the name, and max(n - 1, 0)
FnCount == main_tokens.v[3].num
FnParameters == IF FnCount >= 1 THEN FnCount - 1 ELSE 0

\* The tokens after the count are FnParameters identifiers, then a type word
\* parse_type knows
FnNamesThenType ==
    /\ Len(main_tokens.v) >= 4 + FnParameters
    /\ \A k \in 4..(3 + FnParameters) : main_tokens.v[k].type = "Identifier"
    /\ main_tokens.v[4 + FnParameters].type = "Type"
    /\ main_tokens.v[4 + FnParameters].text \in {"None", "int", "float", "string"}

\* A run of the image built from a text that begins with definefnlabel is
\* about to call the function the text begins with
AboutCallOfFn ==
    /\ host.option = "run" /\ BeginsWithFn /\ main_parsed.ok
    /\ instructions = main_parsed.v
    /\ About({"Call"}) /\ Current.name = main_tokens.v[2].text
    /\ Current.name \in DOMAIN function_addr_table

\* C23: parsing a definefnlabel consumes the count n and then reads exactly
\* n - 1 identifiers as parameter names when n >= 1, none when n = 0, before
\* the return type: the DefineFnLabel has max(n - 1, 0) parameters, a text
\* with another number of names before the type is refused, and a Call of
\* the function takes max(n - 1, 0) arguments off the argument stack.
C23_CountMinusOneNames ==
    /\ [](BuildEnded /\ BeginsWithFn
          => IF FnNamesThenType
             THEN main_parsed.ok
                  => /\ main_parsed.v[1].op = "DefineFnLabel"
                     /\ Len(main_parsed.v[1].args) = FnParameters
                     /\ \A k \in 1..FnParameters :
                            main_parsed.v[1].args[k] = main_tokens.v[3 + k].text
             ELSE ~main_parsed.ok)
    /\ [][AboutCallOfFn /\ Len(argument_stack) >= FnParameters
          => /\ phase' = "running"
             /\ Len(argument_stack') = Len(argument_stack) - FnParameters]_vars

\* The text with count 3 and two names has been built and run, and the Call
\* has taken both arguments
C23_Witness ==
    /\ host.option = "run" /\ host.text = TextCount3
    /\ main_parsed.v[1] = InsDefineFnLabel("f", <<"x", "y">>, "None")
    /\ phase = "running" /\ dispatched >= 0 /\ Last.op = "Call"
    /\ argument_stack = <<>>

\* C24: inside a string literal the escape \u{XXXX}, four hexadecimal digits
\* between braces, decodes to the character with that code point: the
\* literal "\u{0041}" tokenizes successfully to a String token holding "A".
C24_BracedUnicodeEscape ==
    BuildEnded /\ host.text = TextEscapeBraced
    => /\ main_tokens.ok
       /\ main_tokens.v[Len(main_tokens.v)] = TokString(<<65>>)

\* The word is r followed only by digits, at least one, and has at most 3
\* characters; the number its digits write
RThenDigits(w) ==
    /\ Len(w) \in 2..3 /\ w[1] = 114
    /\ \A k \in 2..Len(w) : w[k] \in 48..57
DigitsValue(w) ==
    IF Len(w) = 2 THEN w[2] - 48 ELSE (w[2] - 48) * 10 + (w[3] - 48)

\* C25: an identifier-shaped word that is no mnemonic, not true or false, no
\* type word and not plch is tokenized as Register(k) iff it is r followed
\* only by digits, with at most 3 characters and k < 16; tokenization fails
\* iff it is such a word with k >= 16; every other word, like ra1, r_1 and
\* r100, is tokenized as an Identifier.
C25_RegisterOrIdentifier ==
    BuildEnded /\ host.text \in WordTexts
    => LET w == host.text
       IN  /\ RThenDigits(w) /\ DigitsValue(w) < 16
              => main_tokens.ok /\ main_tokens.v = <<TokRegister(DigitsValue(w))>>
           /\ RThenDigits(w) /\ DigitsValue(w) >= 16 => ~main_tokens.ok
           /\ ~RThenDigits(w)
              => main_tokens.ok /\ main_tokens.v = <<TokIdentifier(Join(w))>>

\* main runs the image a build has written
RunOfBuilt == host.option = "run" /\ host.text \in Texts /\ host.image = main_parsed.v

\* C26: every instruction sequence that tokenize followed by Parser::parse
\* produces has all its register operands in 0..15, so no run of a program
\* assembled from text ends with InvalidRegister.
C26_AssembledRegistersInRange ==
    /\ main_parsed.ok
       => \A k \in 1..Len(main_parsed.v) :
              /\ main_parsed.v[k].a \in 0..15
              /\ main_parsed.v[k].b \in 0..15
              /\ main_parsed.v[k].c \in 0..15
    /\ RunOfBuilt => ~FailedWith(NameInvalidRegister)

\* The text that moves into r15 and writes r15 has been built and run to its
\* end
C26_Witness ==
    /\ RunOfBuilt /\ host.text = TextRegisterLast
    /\ main_parsed.v[1].a = 15
    /\ phase = "exhausted" /\ IsSet(15)

-----------------------------------------------------------------------------
(* The backtrace *)

\* The blocks are at most 8 and render the innermost frames of the stack fs,
\* the innermost first, one block for each run of equal frames
InnermostBlocks(blocks, fs) ==
    /\ Len(blocks) <= 8
    /\ Len(blocks) = IF Len(fs) < 8 THEN Len(fs) ELSE 8
    /\ \A k \in 1..Len(blocks) : blocks[k].frame = fs[Len(fs) + 1 - k].frame

\* C27: for a call stack of any depth and content get_backtrace_string emits
\* at most 8 "at <name>" frame blocks, walking the frames from the innermost
\* outward. Stated of every stack a run holds and of the backtrace of every
\* error a run ends with.
C27_BacktraceAtMostEightBlocks ==
    /\ InnermostBlocks(get_backtrace_string(frames), frames)
    /\ result.kind = "err"
       => InnermostBlocks(result.error[1].backtrace_string, result.error[1].backtrace)

\* A run has failed under a stack of more than 8 different frames, and the
\* backtrace of its error has 8 blocks, the first for the innermost function
C27_Witness ==
    /\ FailedWith(NameUnsetRegister)
    /\ instructions \in ChainPrograms
    /\ Len(result.error[1].backtrace) > 8
    /\ Len(result.error[1].backtrace_string) = 8
    /\ result.error[1].backtrace_string[1].frame.name = ChainNames[Len(ChainNames)]

-----------------------------------------------------------------------------
(* The debugged form *)

\* The loop is about to write the debugged form of a register that holds a
\* canonically encoded String
AboutDebuggedString ==
    /\ About({"StdoutWriteDebugged", "StderrWriteDebugged"})
    /\ IsSet(Current.a) /\ VariantOf(Current.a) = "String"
    /\ DeserializeString(BytesOf(Current.a)).ok

\* C28: StdoutWriteDebugged and StderrWriteDebugged on a register that holds
\* a canonically encoded String s write s enclosed in double quotes, and the
\* run goes on with the next instruction; rendering the debugged form of a
\* String never aborts the interpreter. A write the stream refuses is left
\* aside.
C28_DebuggedStringQuoted ==
    [][AboutDebuggedString
       => /\ phase' # "panicked"
          /\ phase' = "running" /\ program_counter' = Idx
             => LET quoted == <<34>> \o DeserializeString(BytesOf(Current.a)).v \o <<34>>
                IN  IF Current.op = "StdoutWriteDebugged"
                    THEN stdout_last' = Some(quoted)
                    ELSE stderr_last' = Some(quoted)]_vars

-----------------------------------------------------------------------------
(* The endless loop *)

\* definelabel L; move r0 int 1; stdoutwrite r0; jumpunc L
LoopProgram ==
    <<InsDefineLabel("L"), InsMove(0, IntV(1)), InsOp1("StdoutWrite", 0),
      InsJumpUnconditional("L")>>

\* run is inside its loop on the loop program
RunsLoop == instructions = LoopProgram /\ phase \in {"running", "failed"}

\* The stream has refused a write of the loop program
WriteRefused == instructions = LoopProgram /\ FailedWith(NameIOError)

\* The instruction dispatched last is a StdoutWrite that has written
JustWrote ==
    /\ phase = "running" /\ dispatched >= 0 /\ Last.op = "StdoutWrite"
    /\ program_counter = dispatched

-----------------------------------------------------------------------------
(* Unset operands *)

NumericOps == {"Add", "Sub", "Mul", "Div", "Rem", "Pow", "Lt", "Le", "Gt", "Ge"}
LogicOps == {"Or", "Xor", "And", "Not"}

\* The instructions that read a register
ReadingOps ==
    NumericOps \cup LogicOps
    \cup {"Eq", "Ne", "MoveBetween", "MoveAsArgument", "SetVariable", "ThrowFrom",
          "JumpConditional", "StdoutWrite", "StdoutWriteDebugged", "StderrWrite",
          "StderrWriteDebugged"}

\* The registers an instruction reads, in the order it reads them
ReadOrder(ins) ==
    IF ins.op \in (NumericOps \cup {"Or", "Xor", "And", "Eq", "Ne", "ThrowFrom"})
    THEN <<ins.a, ins.b>>
    ELSE <<ins.a>>

\* The register is set and holds a value of a type the instruction refuses
IllTyped(ins, reg) ==
    /\ IsSet(reg)
    /\ \/ ins.op \in NumericOps /\ VariantOf(reg) \notin {"Int", "Float"}
       \/ ins.op \in LogicOps /\ VariantOf(reg) # "Bool"

\* The loop is about to dispatch an instruction that reads registers in
\* 0..15, one of them unset
AboutUnsetOperand ==
    /\ About(ReadingOps)
    /\ \A k \in 1..Len(ReadOrder(Current)) : ReadOrder(Current)[k] \in 0..15
    /\ \E k \in 1..Len(ReadOrder(Current)) : ~IsSet(ReadOrder(Current)[k])

\* C30: an instruction that reads registers in 0..15, one of which is unset,
\* ends the run with an error: UnsetRegister when the first unset operand is
\* reached before any type fault, InvalidType only when an operand read
\* before it is ill-typed; and it writes no register, no local variable (the
\* backtrace holds the frames as they were) and no argument-stack entry.
C30_UnsetOperandFails ==
    [][AboutUnsetOperand
       => LET reads == ReadOrder(Current)
              first == CHOOSE k \in 1..Len(reads) :
                          ~IsSet(reads[k]) /\ \A j \in 1..(k - 1) : IsSet(reads[j])
              faulty == \E j \in 1..(first - 1) : IllTyped(Current, reads[j])
          IN  /\ IF faulty THEN FailedWith(NameInvalidType)'
                 ELSE FailedWith(NameUnsetRegister)'
              /\ registers' = registers
              /\ argument_stack' = argument_stack
              /\ frames' = <<>>
              /\ result'.error[1].backtrace = frames]_vars

\* An arithmetic instruction has failed with InvalidType on a first operand
\* that is no number, its second operand unset
C30_Witness ==
    /\ phase = "failed" /\ dispatched >= 0 /\ Last.op \in NumericOps
    /\ Last.a \in 0..15 /\ Last.b \in 0..15
    /\ IsSet(Last.a) /\ ~IsSet(Last.b)
    /\ FailedWith(NameInvalidType)

----------------------------------------------------------------------------
(* Calls that cannot be made *)

\* A Call of a function whose parameters outnumber the argument stack
StarvedCall ==
    /\ About({"Call"})
    /\ Current.name \in DOMAIN function_addr_table
    /\ Len(argument_stack) < Len(function_addr_table[Current.name].args)

\* A Call of a name the function table does not hold
UndefinedCall == About({"Call"}) /\ Current.name \notin DOMAIN function_addr_table

\* C31: a Call of a function with n parameters on an argument stack of fewer
\* than n values ends the run with NotEnoughArguments and pushes no frame for
\* the callee (the backtrace is the stack before the Call, and no frame is
\* left); a Call of a name absent from the function table ends the run with
\* UndefinedFunction, also when a DefineLabel defines that name.
C31_CallErrors ==
    [][/\ StarvedCall =>
            /\ phase' = "failed" /\ result'.kind = "err"
            /\ result'.error[1].name = NameNotEnoughArguments
            /\ result'.error[1].backtrace = frames
            /\ StackLen(frames') = 0
       /\ UndefinedCall =>
            /\ phase' = "failed" /\ result'.kind = "err"
            /\ result'.error[1].name = NameUndefinedFunction
            /\ result'.error[1].backtrace = frames
            /\ StackLen(frames') = 0]_vars

C31_Witness ==
    /\ FailedWith(NameNotEnoughArguments)
    /\ dispatched >= 0 /\ Last.op = "Call"
    /\ Last.name \in DOMAIN function_addr_table
    /\ Len(function_addr_table[Last.name].args) = 2
    /\ argument_stack = <<>>
    /\ \A i \in 1..Len(result.error[1].backtrace) :
          result.error[1].backtrace[i].frame.name # Last.name

----------------------------------------------------------------------------
(* The label and function tables *)

\* setup has run
TablesSetUp == phase \in {"ready", "running", "returned", "exhausted", "failed", "panicked"}

\* The instruction at index i defines the label name, or the function name
DefinesLabel(i, name) ==
    /\ i \in 0..(Len(instructions) - 1)
    /\ instructions[i + 1].op = "DefineLabel"
    /\ instructions[i + 1].name = name

DefinesFunction(i, name) ==
    /\ i \in 0..(Len(instructions) - 1)
    /\ instructions[i + 1].op = "DefineFnLabel"
    /\ instructions[i + 1].name = name

\* C32: after setup every name of the label table maps to the index of a
\* DefineLabel carrying that name, and every name of the function table to
\* the index of a DefineFnLabel carrying that name, with its parameter list;
\* of several definitions of a name the table holds the index of the last;
\* and no later step of the run changes either table.
C32_TablesPointAtDefinitions ==
    /\ [](TablesSetUp =>
            /\ \A n \in DOMAIN labels :
                  /\ DefinesLabel(labels[n], n)
                  /\ \A j \in 0..(Len(instructions) - 1) :
                        DefinesLabel(j, n) => j <= labels[n]
            /\ \A n \in DOMAIN function_addr_table :
                  /\ DefinesFunction(function_addr_table[n].pos, n)
                  /\ function_addr_table[n].args =
                        instructions[function_addr_table[n].pos + 1].args
                  /\ \A j \in 0..(Len(instructions) - 1) :
                        DefinesFunction(j, n) => j <= function_addr_table[n].pos)
    /\ [][TablesSetUp =>
            /\ labels' = labels
            /\ function_addr_table' = function_addr_table
            /\ instructions' = instructions]_vars

C32_Witness ==
    /\ phase = "exhausted"
    /\ "L" \in DOMAIN labels /\ "f" \in DOMAIN function_addr_table
    /\ DefinesLabel(1, "L") /\ labels["L"] = 3
    /\ DefinesFunction(6, "f") /\ function_addr_table["f"].pos = 9
    /\ function_addr_table["f"].args = <<>>
    /\ dispatched >= 0 /\ Last.op = "Return"

----------------------------------------------------------------------------
(* Where a jump lands *)

\* The loop is about to dispatch a jump to a defined label that is taken
TakenJump ==
    /\ About({"JumpUnconditional", "JumpConditional"})
    /\ Current.name \in DOMAIN labels
    /\ Current.op = "JumpConditional" =>
          /\ IsSet(Current.a)
          /\ Len(BytesOf(Current.a)) > 0
          /\ BytesOf(Current.a)[1] = 1

\* The instruction dispatched last is a jump that left the program counter
\* one past its label
JustJumped ==
    /\ phase = "running" /\ dispatched >= 0
    /\ Last.op \in {"JumpUnconditional", "JumpConditional"}
    /\ Last.name \in DOMAIN labels
    /\ program_counter = labels[Last.name] + 1

\* C33: a taken jump to a label defined at index i retires with the program
\* counter at i + 1, and the instruction dispatched next is the one at index
\* i + 2; the instruction at i + 1 is dispatched when the DefineLabel is
\* reached in sequence, and on no jump to the label.
C33_JumpSkipsInstructionAfterLabel ==
    /\ [][TakenJump =>
            /\ phase' = "running"
            /\ program_counter' = labels[Current.name] + 1]_vars
    /\ [][JustJumped /\ HasCurrent =>
            /\ dispatched' = labels[Last.name] + 2
            /\ dispatched' # labels[Last.name] + 1]_vars
    /\ [][phase = "running" /\ dispatched >= 0 /\ Last.op = "DefineLabel" /\ HasCurrent =>
            dispatched' = dispatched + 1]_vars

C33_Witness ==
    /\ JustJumped /\ HasCurrent
    /\ Last.op = "JumpConditional"
    /\ labels[Last.name] > dispatched
    /\ Idx = labels[Last.name] + 2
    /\ instructions[labels[Last.name] + 2].op = "Move"

----------------------------------------------------------------------------
(* The runs of the backtrace *)

\* The blocks render the innermost runs of equal frames of the stack fs, each
\* once and with the length of its run
RunsWithLength(blocks, fs) ==
    \A k \in 1..Len(blocks) :
        /\ k <= Len(fs)
        /\ blocks[k].frame = fs[Len(fs) + 1 - k].frame
        /\ blocks[k].times = fs[Len(fs) + 1 - k].count

\* C34: every run of k > 1 equal consecutive frames that the backtrace
\* renders is one block followed by a "k times called" marker that carries
\* the whole length k of the run, the run of the 8th block included. Stated
\* of the backtrace of every error a run ends with.
C34_RunsCoalescedWithLength ==
    result.kind = "err"
    => RunsWithLength(result.error[1].backtrace_string, result.error[1].backtrace)

----------------------------------------------------------------------------
(* The error of ThrowFrom *)

\* The loop is about to dispatch a ThrowFrom whose two registers are set to
\* values that have a text
AboutThrowFrom ==
    /\ About({"ThrowFrom"})
    /\ IsSet(Current.a) /\ IsSet(Current.b)
    /\ to_string(RegistersGet(registers, Current.a)[1]).ok
    /\ to_string(RegistersGet(registers, Current.b)[1]).ok

\* C35: ThrowFrom of two set registers throws an error whose name is the
\* text (to_string) of the value of the reason register and whose message is
\* the text of the value of the message register; for a String register that
\* holds s the name is s, without the bytes of the length prefix.
C35_ThrowFromStringified ==
    [][AboutThrowFrom =>
          /\ phase' = "failed" /\ result'.kind = "err"
          /\ result'.error[1].name = to_string(RegistersGet(registers, Current.a)[1]).v
          /\ result'.error[1].message.values =
                <<to_string(RegistersGet(registers, Current.b)[1]).v>>]_vars

----------------------------------------------------------------------------
(* Unwinding *)

\* The frames of a stack one by one, the outermost first
RECURSIVE Flat(_)
Flat(fs) ==
    IF fs = <<>> THEN <<>>
    ELSE Flat(SubSeq(fs, 1, Len(fs) - 1))
         \o [i \in 1..fs[Len(fs)].count |-> fs[Len(fs)].frame]

\* The places of the frames of a stack that handle errors
Handling(flat) == {i \in 1..Len(flat) : flat[i].handles_error}

\* C36: unwind_stack on any call stack: when some frame handles errors it
\* returns the error_handling_addr of the innermost such frame, having
\* popped that frame and every frame above it and left the frames below as
\* they were; when none does it pops every frame and returns the error it
\* was given, with the name, message and backtrace it had.
C36_UnwindToInnermostHandler ==
    [][phase = "unwinding" =>
          LET before == Flat(frames)
              after == Flat(frames')
          IN  IF Handling(before) # {}
              THEN LET i == CHOOSE k \in Handling(before) :
                                \A j \in Handling(before) : j <= k
                   IN  /\ phase' = "handled"
                       /\ program_counter' = before[i].error_handling_addr
                       /\ after = SubSeq(before, 1, i - 1)
              ELSE /\ phase' = "failed"
                   /\ after = <<>>
                   /\ result' = result
                   /\ result'.error[1].backtrace = frames]_vars

\* A stack with two handlers under a frame that handles nothing has been
\* unwound to the inner handler: the outer one is still on the stack
C36_Witness ==
    /\ phase = "handled"
    /\ program_counter = 5
    /\ StackLen(frames) = 2
    /\ last_frame(frames).handles_error
    /\ last_frame(frames).error_handling_addr = 3

----------------------------------------------------------------------------
(* The recursion without end *)

\* definefnlabel f 0 None; call f; endfunction; call f
RecursionProgram ==
    <<InsDefineFnLabel("f", <<>>, "None"), InsCall("f"), InsEndFunction, InsCall("f")>>

\* run is inside its loop on the recursion program
RunsRecursion == instructions = RecursionProgram /\ phase = "running"

\* C37: a run in which a function without parameters calls itself
\* unconditionally ends with StackOverflow: every Call below the bound adds
\* one frame to the call stack, the Call at the bound throws StackOverflow,
\* the run ends in no other way and it does not go on for ever.
C37_RecursionOverflows ==
    /\ [](instructions = RecursionProgram =>
            /\ phase \notin {"returned", "exhausted", "panicked"}
            /\ phase = "failed" => FailedWith(NameStackOverflow))
    /\ [][RunsRecursion /\ About({"Call"}) =>
            IF StackLen(frames) + 1 >= max_size
            THEN FailedWith(NameStackOverflow)'
            ELSE /\ phase' = "running"
                 /\ StackLen(frames') = StackLen(frames) + 1]_vars
    /\ RunsRecursion ~> FailedWith(NameStackOverflow)

C37_Witness ==
    /\ instructions = RecursionProgram
    /\ FailedWith(NameStackOverflow)
    /\ dispatched = 1
    /\ StackLen(result.error[1].backtrace) = max_size - 1

----------------------------------------------------------------------------
(* Programs that only go forward *)

\* The program holds no jump and no Call
Forward ==
    \A i \in 1..Len(instructions) :
        instructions[i].op \notin {"JumpUnconditional", "JumpConditional", "Call"}

\* run is inside its loop on a program of at least one instruction that
\* holds no jump and no Call
RunsForward == Forward /\ instructions # <<>> /\ phase = "running"

\* run has ended: by Return, at the end of the instructions, with an error,
\* or in a panic of the interpreter
RunEnded == phase \in {"returned", "exhausted", "failed", "panicked", "exited"}

\* C38: a program without JumpUnconditional, JumpConditional and Call always
\* terminates: every turn of the loop either ends the run or dispatches an
\* instruction further on than the last and leaves the program counter no
\* further back, so at most |instructions| instructions are dispatched; and
\* while the run has not ended a turn can be taken (of the arithmetic
\* instructions this is not asked: their turns are total in the operands).
C38_ForwardProgramsTerminate ==
    /\ [](RunsForward =>
            /\ dispatched < Len(instructions)
            /\ program_counter >= dispatched
            /\ (HasCurrent /\ Current.op \in ArithmeticOps) \/ ENABLED Next)
    /\ [][RunsForward =>
            IF HasCurrent
            THEN /\ dispatched' = Idx
                 /\ dispatched' > dispatched
                 /\ phase' = "running" => program_counter' >= dispatched'
                 /\ RunEnded' \/ RunsForward'
            ELSE phase' = "exhausted"]_vars

\* A program of three instructions without jump and Call has run to its end
\* and every one of them was dispatched
C38_Witness ==
    /\ Forward /\ Len(instructions) = 3
    /\ phase = "exhausted"
    /\ dispatched = Len(instructions) - 1

----------------------------------------------------------------------------
(* EndFunction *)

\* The instruction dispatched last is an EndFunction reached inside a called
\* function: the frame of a Call is the innermost
RanThroughEndFunction ==
    /\ phase = "running" /\ dispatched >= 0 /\ Last.op = "EndFunction"
    /\ frames # <<>> /\ last_frame(frames).return_addr # None

\* C39: EndFunction changes nothing but the program counter: when the body
\* of a called function reaches its EndFunction without a Return the frame
\* of the callee is not popped and the run goes on with the instruction after
\* the EndFunction under that frame; the call stack loses a frame only to a
\* Return (or to the unwinding of a throw).
C39_EndFunctionKeepsFrame ==
    /\ [][About({"EndFunction"}) =>
            /\ phase' = "running"
            /\ program_counter' = program_counter + 1
            /\ frames' = frames
            /\ registers' = registers
            /\ argument_stack' = argument_stack
            /\ stdout_last' = stdout_last /\ stderr_last' = stderr_last
            /\ labels' = labels /\ function_addr_table' = function_addr_table
            /\ result' = result]_vars
    /\ [][RanThroughEndFunction /\ HasCurrent =>
            /\ dispatched' = dispatched + 1
            /\ StackLen(frames') < StackLen(frames) =>
                  Current.op = "Return" \/ phase' = "failed"]_vars
    /\ [][phase = "running" /\ StackLen(frames') < StackLen(frames) =>
            \/ HasCurrent /\ Current.op = "Return"
            \/ phase' = "failed"]_vars

\* The body of f has run through its EndFunction: the frame of f is still
\* the innermost, over Main, and the instruction after is the next
C39_Witness ==
    /\ RanThroughEndFunction
    /\ StackLen(frames) = 2
    /\ last_frame(frames).name = "f"
    /\ HasCurrent /\ Current.op = "Move"

----------------------------------------------------------------------------
(* The end of a number *)

\* C40: the number scanner takes the digits of the number and nothing more:
\* after the Int token the tokenizer goes on with the character that follows
\* the last digit, so the tokens of a text that begins with the number 1 are
\* Int(1) and then the tokens of the rest of the text from that character on:
\* the Comma of a comma, nothing for a comment.
C40_NumberScannerStopsAtDigits ==
    BuildEnded /\ host.text \in NumberTexts
    => LET rest == tokenize(Tail(host.text))
       IN  IF rest.ok
           THEN main_tokens.ok /\ main_tokens.v = <<TokInt(1)>> \o rest.v
           ELSE ~main_tokens.ok

====
